---- MODULE Spec2Model ----
(***************************************************************************)
(* Model of src/server_manager.py and of the test controller of            *)
(* src/tester_gui.py.                                                      *)
(* Spec, FairSpec, CoordFairSpec: the concurrent probing engine, i.e.      *)
(* test_servers (coordinator), its nested worker() threads, the target     *)
(* queue, the result queue, the completed counter and its lock, and the    *)
(* stop / pause events owned by the external caller.                       *)
(* FuncSpec: single calls of parse_unix_ping, parse_windows_ping,          *)
(* ping_test and calculate_mbps on inputs drawn from bounded sets.         *)
(* SpeedSpec: run_socket_ping_pong_test and the sessions of                *)
(* _execute_socket_ping_pong it runs, port after port.                     *)
(* GuiSpec: the handlers of TesterApp that start, stop, pause and clean up *)
(* a test run, the modal dialogs they open, and the run_test_loop threads. *)
(***************************************************************************)
EXTENDS Integers, Sequences, FiniteSets, TLC

\* ---------------------------------------------------------------- bounds
MaxServers == 2        \* longest server list submitted to test_servers
MaxWorkers == 2        \* largest max_workers argument
MaxOtherThreads == 1   \* threads alive besides the caller and the workers
MaxLatency == 2        \* numeric ping latencies are 1..MaxLatency
MaxLines == 2          \* most lines in a ping output given to the parsers
MaxPorts == 3          \* longest ports list given to the speed test
MaxDuration == 2       \* longest session duration, in ticks
MaxChunk == 2          \* chunk_size, in bytes
MaxFastRounds == 1     \* sends of one session that may take no tick
MaxDialogs == 2        \* most modal message boxes open at once
MaxThreads == 3        \* most run_test_loop threads not yet cleaned up

\* ------------------------------------------------------------- constants
None == -1             \* Python None as a latency (outside 1..MaxLatency)
Inf == 1000            \* float('inf') of the sort key

ServerIds == 1..MaxServers
WorkerIds == 1..MaxWorkers
PingOutcomes == {None} \cup (1..MaxLatency)

VARIABLES
    total,             \* len(servers)
    max_workers,       \* argument max_workers
    coordPc,           \* position of the thread running test_servers
    started,           \* number of worker threads started so far
    server_queue,      \* Queue of servers still to be handed out
    unfinished_tasks,  \* server_queue.unfinished_tasks
    result_queue,      \* Queue of result dicts
    collected,         \* results list before the sort
    results,           \* the list test_servers returns
    completed,         \* nonlocal completed
    lock,              \* holder of threading.Lock (0 = free)
    stop_event,        \* _stop_event.is_set()
    pause_event,       \* _pause_event.is_set()
    wpc,               \* position of each worker thread
    wserver,           \* local variable server of each worker (0 = none)
    \* history variables (record what happened, never read by the program)
    takes,             \* per server: times removed from server_queue
    probes,            \* per server: times get_server_latency ran on it
    rcbCalls,          \* per server: result_callback invocations
    progressLog,       \* values passed to progress_callback, in order
    drained,           \* servers removed by the coordinator's stop drain
    dropped,           \* servers dropped by a worker's post-dequeue check
    droppedAtReturn,   \* value of dropped when the results were collected
    inFlightAtReturn,  \* servers held by workers, unpublished, at collect
    deqInPause,        \* per worker: dequeues since pause was last set
    completedAtPause,  \* completed when pause was last set
    raisedFor,         \* servers for which a callback raised an exception
    failedProbe,       \* servers whose probe failed
    \* a single call of one of the pure functions
    call,              \* the function called and its arguments
    ret,               \* what the call returned or raised (pending before)
    \* run_socket_ping_pong_test and the session it is running
    sp_pc,             \* position in the wrapper / the session
    ip_address,        \* server.get("ipv4_addr_in") ("" when missing)
    ports,             \* argument ports
    duration,          \* argument duration, in ticks
    port_idx,          \* position of the for loop in ports
    sock,              \* the session's socket: none, created, connected, closed
    total_bytes_sent,
    total_bytes_received,
    bytes_received_this_round,
    loop_elapsed,      \* ticks since loop_start_time
    round_left,        \* ticks until recv_deadline
    download_mbps,
    upload_mbps,
    sp_result,         \* what run_socket_ping_pong_test returned
    loop_error,        \* why the round loop was left early ("none" if not)
    rtt_samples,       \* len(rtt_samples)
    successful_exchanges,
    teardown,          \* the calls made on the socket in the finally block
    \* history variables of the speed test
    sends,             \* sock.send calls of the current session
    recv_phases,       \* receive phases of the current session that ended
    attempts,          \* one record per session run, in order
    \* the test controller of TesterApp (stop_event and pause_event above
    \* stand for self.stop_event and self.pause_event in GuiSpec)
    test_in_progress,  \* self.test_in_progress
    selected,          \* self.selected_server_items is not empty
    dialogs,           \* modal message boxes open, the innermost last
    test_threads,      \* run_test_loop threads that have not ended
    cleanups           \* _test_cleanup calls scheduled and not yet run

progVars == <<total, max_workers, coordPc, started,
              server_queue, unfinished_tasks, result_queue, collected,
              results, completed, lock, stop_event, pause_event, wpc,
              wserver>>
histVars == <<takes, probes, rcbCalls, progressLog, drained, dropped,
              droppedAtReturn, inFlightAtReturn, deqInPause,
              completedAtPause>>
cbVars == <<raisedFor, failedProbe>>
spVars == <<sp_pc, ip_address, ports, duration, port_idx, sock,
            total_bytes_sent, total_bytes_received,
            bytes_received_this_round, loop_elapsed, round_left,
            download_mbps, upload_mbps, sp_result, sends, attempts,
            loop_error, rtt_samples, successful_exchanges, teardown,
            recv_phases>>
roundVars == <<loop_error, rtt_samples, successful_exchanges>>
guiVars == <<test_in_progress, selected, dialogs, test_threads, cleanups>>
auxVars == <<call, ret, spVars, guiVars>>
vars == <<progVars, histVars, cbVars, auxVars>>

\* ---------------------------------------------------------- pure helpers
Min(a, b) == IF a <= b THEN a ELSE b

\* min(max_workers, total)
WorkersAsConfigured(mw, n) == mw   \* faulty variant: ignores len(servers)
actual_workers(mw, n) == Min(mw, n)

\* Queue.get on a non-empty queue: the head is removed and returned
QueueGetItem(q) == Head(q)
QueueGetRestPeek(q) == q          \* faulty variant: the head is left in place
QueueGetRest(q) == Tail(q)

\* Queue.task_done
TaskDoneForgotten(u) == u      \* faulty variant: no accounting
task_done(u) == u - 1

\* completed += 1
IncrCompletedTwice(c) == c + 2   \* faulty variant: counted twice
IncrCompleted(c) == c + 1

\* "if result:" on the dict get_server_latency returns (a dict is true
\* when it has at least one key)
ResultHasLatency(r) == r.latency # None   \* faulty variant: tests the latency
ResultTruthy(r) == DOMAIN r # {}

\* completed / total * 100 as an exact fraction num/den
ProgressFraction(c, n) == [num |-> c, den |-> n]   \* faulty variant: no * 100
ProgressValue(c, n) == [num |-> c * 100, den |-> n]
FracLeq(a, b) == a.num * b.den <= b.num * a.den
IsHundred(a) == a.num = 100 * a.den

\* key of results.sort
SortKeyRaw(r) == r.latency       \* faulty variant: None not mapped to inf
SortKey(r) == IF r.latency # None THEN r.latency ELSE Inf

\* list.sort(key=SortKey): stable insertion of x into a sorted list
RECURSIVE InsertByKey(_, _)
InsertByKey(x, s) ==
    IF s = <<>> THEN <<x>>
    ELSE IF SortKey(x) < SortKey(Head(s)) THEN <<x>> \o s
    ELSE <<Head(s)>> \o InsertByKey(x, Tail(s))

RECURSIVE SortResults(_)
SortResults(s) ==
    IF s = <<>> THEN <<>>
    ELSE InsertByKey(s[Len(s)], SortResults(SubSeq(s, 1, Len(s) - 1)))

\* threading.active_count(): the calling thread, the worker threads still
\* alive, and whatever other threads the process has at that moment
AliveWorkers == {w \in WorkerIds : wpc[w] \notin {"unstarted", "exited"}}
active_count(others) == 1 + others + Cardinality(AliveWorkers)

\* the worker's exit test after queue.Empty
WorkerMayExit(ac, mw) == ac <= mw + 1

\* the worker's pause test at the top of its loop
WorkerIgnoresPause(p) == FALSE   \* faulty variant: pause never read
WorkerSeesPause(p) == p

\* the coordinator's test after its wait loop: if _stop_event.is_set()
StopNeverSeen(st) == FALSE       \* faulty variant: the drain is skipped
StopSeenAfterLoop(st) == st

\* the coordinator's loop exit test: server_queue.unfinished_tasks == 0
QueueProcessedByEmpty(u, q) == q = <<>>   \* faulty variant: tests empty()
QueueProcessed(u, q) == u = 0

\* line 151: if total == 0
EmptyCheckSkipped(n) == FALSE    \* faulty variant: no early return
NoServers(n) == n = 0

\* the coordinator's pause wait condition (line 228):
\* while _pause_event.is_set() and not _stop_event.is_set()
PauseWaitOnce(p, st) == FALSE    \* faulty variant: one sleep, no loop
PauseWaitContinues(p, st) == p /\ ~st

\* the coordinator's drain loop condition: not server_queue.empty()
DrainNeverRuns(q) == FALSE       \* faulty variant: the loop body is dead
DrainContinues(q) == q # <<>>

\* --------------------------------------------------- text of ping output
\* The output of ping is a sequence of lines (str.splitlines), a line a
\* sequence of tokens.  A token is a piece of text the parsers cannot look
\* inside: k names its text, v is its value in tenths when it is a number.
\*   hdr      the text "rtt min/avg/max/mdev"
\*   avgword  any other text that contains "avg" and no "=" or "/" the
\*            parser would see after the "=" (e.g. "round-trip min/avg/max")
\*   Average  the word "Average"
\*   eq "="   slash "/"   sp " "   ms "ms"   junk any other word
\*   int      a run of digits ("15")
\*   dec      digits with one decimal point ("23.4")
\*   dots     digits and dots that are no number ("1.2.3")
Tok(k, v) == [k |-> k, v |-> v]
IntTok(n) == Tok("int", n * 10)
DecTok(tenths) == Tok("dec", tenths)
DotsTok == Tok("dots", 0)
Word(k) == Tok(k, 0)

\* Python values the parsers produce: None, a float (in tenths), or a
\* raised ValueError
PyNone == [tag |-> "None", v |-> 0]
PyFloat(x) == [tag |-> "float", v |-> x]
PyValueError == [tag |-> "ValueError", v |-> 0]

\* str.split(sep)
RECURSIVE split(_, _)
split(s, sep) ==
    IF \A i \in DOMAIN s : s[i].k # sep THEN <<s>>
    ELSE LET i == CHOOSE i \in DOMAIN s :
                      /\ s[i].k = sep
                      /\ \A j \in 1..(i - 1) : s[j].k # sep
         IN <<SubSeq(s, 1, i - 1)>> \o split(SubSeq(s, i + 1, Len(s)), sep)

\* str.strip()
RECURSIVE strip(_)
strip(s) ==
    IF s # <<>> /\ Head(s).k = "sp" THEN strip(Tail(s))
    ELSE IF s # <<>> /\ s[Len(s)].k = "sp"
         THEN strip(SubSeq(s, 1, Len(s) - 1))
         ELSE s

\* float(text): surrounding blanks are ignored, the rest must be one number
float(text) ==
    LET t == strip(text)
    IN IF Len(t) = 1 /\ t[1].k \in {"int", "dec"}
       THEN PyFloat(t[1].v)
       ELSE PyValueError

\* "avg" in line, "=" in line
ContainsAvg(line) == \E i \in DOMAIN line : line[i].k \in {"hdr", "avgword"}
ContainsEq(line) == \E i \in DOMAIN line : line[i].k = "eq"

\* Regular expressions as token patterns: N is [\d.]+, D is \d+, and the
\* parenthesised element is group 1.
\* r'rtt min/avg/max/mdev = [\d.]+/([\d.]+)/[\d.]+/[\d.]+ ms'
UnixRegex ==
    <<"hdr", "sp", "eq", "sp", "N", "slash", "(N)", "slash", "N", "slash",
      "N", "sp", "ms">>
\* r"Average = (\d+)ms"
WindowsRegexSpaced ==           \* faulty variant: a blank before "ms"
    <<"Average", "sp", "eq", "sp", "(D)", "sp", "ms">>
WindowsRegex == <<"Average", "sp", "eq", "sp", "(D)", "ms">>

TokMatches(t, p) ==
    IF p \in {"N", "(N)"} THEN t.k \in {"int", "dec", "dots"}
    ELSE IF p \in {"D", "(D)"} THEN t.k = "int"
    ELSE t.k = p

MatchAt(line, i, re) ==
    /\ i + Len(re) - 1 <= Len(line)
    /\ \A j \in DOMAIN re : TokMatches(line[i + j - 1], re[j])

\* every place <<line, position>> of the output where re matches
Matches(output, re) ==
    UNION {{<<l, i>> : i \in {p \in DOMAIN output[l] :
                                 MatchAt(output[l], p, re)}} :
           l \in DOMAIN output}

\* re.search(re, output): the leftmost match, and its group 1
search(output, re) ==
    CHOOSE m \in Matches(output, re) :
        \A n \in Matches(output, re) :
            m[1] < n[1] \/ (m[1] = n[1] /\ m[2] <= n[2])
group1(output, re) ==
    LET m == search(output, re)
        g == CHOOSE j \in DOMAIN re : re[j] \in {"(N)", "(D)"}
    IN <<output[m[1]][m[2] + g - 1]>>

\* lines 27-35 of parse_unix_ping: the fallback loop, from line n on
RECURSIVE AvgLineFallback(_, _)
AvgLineFallback(output, n) ==
    IF n > Len(output) THEN PyNone
    ELSE LET line == output[n]
             parts == split(strip(split(line, "eq")[2]), "slash")
         IN IF /\ ContainsAvg(line)
               /\ ContainsEq(line)
               /\ Len(parts) >= 2
               /\ float(parts[2]).tag = "float"
            THEN float(parts[2])
            ELSE AvgLineFallback(output, n + 1)

parse_unix_ping(output) ==
    IF Matches(output, UnixRegex) # {}
    THEN float(group1(output, UnixRegex))
    ELSE AvgLineFallback(output, 1)

parse_windows_ping(output) ==
    IF Matches(output, WindowsRegex) # {}
    THEN float(group1(output, WindowsRegex))
    ELSE PyNone

\* What subprocess.run does: it returns a completed process (returncode,
\* stdout) or raises TimeoutExpired, FileNotFoundError or something else.
Completed(code, out) == [kind |-> "completed", returncode |-> code,
                         stdout |-> out]
Raised(kind) == [kind |-> kind, returncode |-> 0, stdout |-> <<>>]

\* the handlers of ping_test (lines 95-104)
PingTestCatchesOnlyTimeout(kind) == kind = "TimeoutExpired"  \* faulty variant
PingTestCatches(kind) ==
    kind \in {"TimeoutExpired", "FileNotFoundError", "Exception", "ValueError"}

\* line 79: if result.returncode != 0
ReturncodeIgnored(returncode) == FALSE   \* faulty variant: exit code unread
ReturncodeFailed(returncode) == returncode # 0

ping_test(target_ip, system, proc) ==
    IF target_ip = "" THEN PyNone
    ELSE IF proc.kind # "completed"
    THEN IF PingTestCatches(proc.kind) THEN PyNone
         ELSE [tag |-> proc.kind, v |-> 0]
    ELSE IF ReturncodeFailed(proc.returncode) THEN PyNone
    ELSE LET avg_latency == IF system = "windows"
                            THEN parse_windows_ping(proc.stdout)
                            ELSE parse_unix_ping(proc.stdout)
         IN IF avg_latency.tag \in {"None", "float"} THEN avg_latency
            ELSE IF PingTestCatches(avg_latency.tag) THEN PyNone
            ELSE avg_latency

\* get_server_latency: the latency field of the result dict
get_server_latency(ipv4_addr_in, system, proc) ==
    IF ipv4_addr_in = "" THEN PyNone
    ELSE ping_test(ipv4_addr_in, system, proc)

\* the latency field as the pool stores it
LatencyOf(py) == IF py.tag = "float" THEN py.v ELSE None

\* where the worker continues after result_callback (lines 192-196): the
\* try around the call swallows an exception
AfterResultCallbackUncaught(raised) ==   \* faulty variant: no inner try
    IF raised THEN "taskdone" ELSE "acquire"
AfterResultCallback(raised) == "acquire"

\* lines of ping output
RttLine(a, b) ==
    <<Word("hdr"), Word("sp"), Word("eq"), Word("sp"), a, Word("slash"), b,
      Word("slash"), DecTok(400), Word("slash"), DecTok(50), Word("sp"),
      Word("ms")>>
ReplyLine == <<Word("junk"), Word("eq"), DecTok(123), Word("sp"), Word("ms")>>

\* the ways one probe of the pool can go: failed tells whether the probe
\* failed (no address, ping failure, or output without a latency)
PingRun(failed, ip, system, proc) ==
    [failed |-> failed, ip_address |-> ip, system |-> system, proc |-> proc]
PingRuns ==
    {PingRun(FALSE, "ip", "linux",
             Completed(0, <<ReplyLine, RttLine(DecTok(1), DecTok(l))>>)) :
        l \in 1..MaxLatency}
    \cup {PingRun(TRUE, "ip", "linux", p) :
             p \in {Completed(1, <<>>), Completed(2, <<ReplyLine>>),
                    Completed(0, <<ReplyLine>>),
                    Completed(0, <<RttLine(DecTok(1), DotsTok)>>),
                    Raised("TimeoutExpired"), Raised("FileNotFoundError"),
                    Raised("Exception")}}
    \cup {PingRun(TRUE, "", "linux", Raised("none"))}

\* number tokens of the parser inputs: "15", "23.4", and "1.2.3"
NumToks == {IntTok(15), DecTok(234)}
AnyNumToks == NumToks \cup {DotsTok}

\* more lines of ping output
RttLineTight(a, b) ==     \* no blank before "ms"
    <<Word("hdr"), Word("sp"), Word("eq"), Word("sp"), a, Word("slash"), b,
      Word("slash"), DecTok(400), Word("slash"), DecTok(50), Word("ms")>>
MacLine(a, b) ==          \* "round-trip min/avg/max/stddev = a/b/c/d ms"
    <<Word("avgword"), Word("sp"), Word("eq"), Word("sp"), a, Word("slash"),
      b, Word("slash"), DecTok(400), Word("slash"), DecTok(50), Word("sp"),
      Word("ms")>>
PairLine(a, b) ==         \* "min/avg=a/b ms"
    <<Word("avgword"), Word("eq"), a, Word("slash"), b, Word("sp"),
      Word("ms")>>
PaddedPairLine(a, b) ==   \* "min/avg = a / b "
    <<Word("avgword"), Word("sp"), Word("eq"), Word("sp"), a, Word("sp"),
      Word("slash"), Word("sp"), b, Word("sp")>>
OneTokLine(a) ==          \* "avg = a"
    <<Word("avgword"), Word("sp"), Word("eq"), Word("sp"), a>>
NoEqLine(a, b) ==         \* "avg a/b"
    <<Word("avgword"), Word("sp"), a, Word("slash"), b>>
TwoEqLine(a, b, c) ==     \* "avg=a/b=c"
    <<Word("avgword"), Word("eq"), a, Word("slash"), b, Word("eq"), c>>
WinLine(n) ==             \* "Maximum = 16ms, Average = nms"
    <<Word("junk"), Word("sp"), Word("Average"), Word("sp"), Word("eq"),
      Word("sp"), n, Word("ms")>>
WinLineSpaced(n) ==       \* "Average = n ms"
    <<Word("Average"), Word("sp"), Word("eq"), Word("sp"), n, Word("sp"),
      Word("ms")>>

PingLines ==
    {RttLine(a, b) : a \in NumToks, b \in AnyNumToks}
    \cup {<<Word("junk"), Word("sp")>> \o RttLine(IntTok(15), DecTok(234))}
    \cup {RttLineTight(IntTok(15), b) : b \in NumToks}
    \cup {MacLine(DecTok(100), b) : b \in AnyNumToks}
    \cup {PairLine(IntTok(15), DecTok(234)),
          PaddedPairLine(IntTok(15), DecTok(234)),
          OneTokLine(DecTok(234)),
          NoEqLine(IntTok(15), DecTok(234)),
          TwoEqLine(DecTok(100), IntTok(15), DecTok(234)),
          ReplyLine,
          <<>>}
    \cup {WinLine(n) : n \in AnyNumToks}
    \cup {WinLineSpaced(IntTok(15))}

\* outputs of at most MaxLines lines
PingOutputs == UNION {[1..n -> PingLines] : n \in 0..MaxLines}

\* round_timeout = 2.0 seconds (line 302), in ticks of one second
RoundTimeout == 2

\* line 448: if dl_mbps is not None or ul_mbps is not None
SessionNeverAccepted(dl, ul) == FALSE    \* faulty variant: never returns
SessionYieldsValue(dl, ul) == dl.num # None \/ ul.num # None

\* for port in ports: the position after position i
SkipPort(i) == i + 2                     \* faulty variant: skips a port
NextPort(i) == i + 1

\* calculate_mbps, with the duration in milliseconds and the result the
\* exact fraction num/den of megabits per second (0.0 is 0/1)
DurationBelowMinimum(duration_ms) == duration_ms < 10  \* faulty variant
DurationAtMostMinimum(duration_ms) == duration_ms <= 10
calculate_mbps(bytes_transferred, duration_ms) ==
    IF DurationAtMostMinimum(duration_ms) \/ bytes_transferred <= 0
    THEN [num |-> 0, den |-> 1]
    ELSE [num |-> bytes_transferred * 8, den |-> duration_ms * 1000]

\* ------------------------------------------------------------------ Init
\* no pure function is being called
NoCall == [fn |-> "none", output |-> <<>>, bytes_transferred |-> 0,
           duration_ms |-> 0, target_ip |-> "", system |-> "",
           proc |-> Raised("none")]
Pending == [tag |-> "pending", v |-> 0]

\* test_servers has been called and has not run yet
PoolStart ==
    /\ coordPc = "call"
    /\ started = 0
    /\ server_queue = <<>>
    /\ unfinished_tasks = 0
    /\ result_queue = <<>>
    /\ collected = <<>>
    /\ results = <<>>
    /\ completed = 0
    /\ lock = 0
    /\ stop_event = FALSE
    /\ pause_event = FALSE
    /\ wpc = [w \in WorkerIds |-> "unstarted"]
    /\ wserver = [w \in WorkerIds |-> 0]
    /\ takes = [s \in ServerIds |-> 0]
    /\ probes = [s \in ServerIds |-> 0]
    /\ rcbCalls = [s \in ServerIds |-> 0]
    /\ progressLog = <<>>
    /\ drained = 0
    /\ dropped = 0
    /\ droppedAtReturn = 0
    /\ inFlightAtReturn = 0
    /\ deqInPause = [w \in WorkerIds |-> 0]
    /\ completedAtPause = 0
    /\ raisedFor = {}
    /\ failedProbe = {}

\* a download or upload value that is None
NoMbps == [num |-> None, den |-> 1]

\* the locals of a session before it runs (lines 283-288)
SessionStart ==
    /\ sock = "none"
    /\ total_bytes_sent = 0
    /\ total_bytes_received = 0
    /\ bytes_received_this_round = 0
    /\ loop_elapsed = 0
    /\ round_left = 0
    /\ download_mbps = NoMbps
    /\ upload_mbps = NoMbps
    /\ sends = 0
    /\ loop_error = "none"
    /\ rtt_samples = 0
    /\ successful_exchanges = 0
    /\ teardown = <<>>
    /\ recv_phases = 0

\* no speed test is running
SpeedIdle ==
    /\ sp_pc = "idle"
    /\ ip_address = ""
    /\ ports = <<>>
    /\ duration = 0
    /\ port_idx = 0
    /\ sp_result = <<NoMbps, NoMbps>>
    /\ attempts = <<>>
    /\ SessionStart

\* TesterApp.__init__ (src/tester_gui.py lines 130-138): no test runs,
\* nothing is selected, no dialog is open
GuiIdle ==
    /\ test_in_progress = FALSE
    /\ selected = FALSE
    /\ dialogs = <<>>
    /\ test_threads = 0
    /\ cleanups = 0

Init ==
    /\ total \in 0..MaxServers
    /\ max_workers \in 1..MaxWorkers
    /\ PoolStart
    /\ call = NoCall
    /\ ret = Pending
    /\ SpeedIdle
    /\ GuiIdle

\* -------------------------------------------------- the external caller
SetStop ==
    /\ ~stop_event
    /\ stop_event' = TRUE
    /\ UNCHANGED <<total, max_workers, coordPc, started,
                   server_queue, unfinished_tasks, result_queue, collected,
                   results, completed, lock, pause_event, wpc, wserver>>
    /\ UNCHANGED histVars
    /\ UNCHANGED <<cbVars, auxVars>>

SetPause ==
    /\ ~pause_event
    /\ pause_event' = TRUE
    /\ deqInPause' = [w \in WorkerIds |-> 0]
    /\ completedAtPause' = completed
    /\ UNCHANGED <<total, max_workers, coordPc, started,
                   server_queue, unfinished_tasks, result_queue, collected,
                   results, completed, lock, stop_event, wpc, wserver>>
    /\ UNCHANGED <<takes, probes, rcbCalls, progressLog, drained, dropped,
                   droppedAtReturn, inFlightAtReturn>>
    /\ UNCHANGED <<cbVars, auxVars>>

ClearPause ==
    /\ pause_event
    /\ pause_event' = FALSE
    /\ deqInPause' = [w \in WorkerIds |-> 0]
    /\ completedAtPause' = 0
    /\ UNCHANGED <<total, max_workers, coordPc, started,
                   server_queue, unfinished_tasks, result_queue, collected,
                   results, completed, lock, stop_event, wpc, wserver>>
    /\ UNCHANGED <<takes, probes, rcbCalls, progressLog, drained, dropped,
                   droppedAtReturn, inFlightAtReturn>>
    /\ UNCHANGED <<cbVars, auxVars>>

\* ------------------------------------------- test_servers (coordinator)
\* lines 149-160: empty list returns at once, else the queue is filled
Setup ==
    /\ coordPc = "call"
    /\ IF NoServers(total)
       THEN /\ coordPc' = "returned"
            /\ UNCHANGED <<server_queue, unfinished_tasks>>
       ELSE /\ coordPc' = "spawn"
            /\ server_queue' = [i \in 1..total |-> i]
            /\ unfinished_tasks' = total
    /\ UNCHANGED <<total, max_workers, started, result_queue,
                   collected, results, completed, lock, stop_event,
                   pause_event, wpc, wserver>>
    /\ UNCHANGED histVars
    /\ UNCHANGED <<cbVars, auxVars>>

\* lines 212-218: one thread.start() per iteration
SpawnWorker ==
    /\ coordPc = "spawn"
    /\ IF started < actual_workers(max_workers, total)
       THEN /\ started' = started + 1
            /\ wpc' = [wpc EXCEPT ![started + 1] = "loop"]
            /\ UNCHANGED coordPc
       ELSE /\ coordPc' = "wait"
            /\ UNCHANGED <<started, wpc>>
    /\ UNCHANGED <<total, max_workers, server_queue,
                   unfinished_tasks, result_queue, collected, results,
                   completed, lock, stop_event, pause_event, wserver>>
    /\ UNCHANGED histVars
    /\ UNCHANGED <<cbVars, auxVars>>

\* line 221: while not _stop_event.is_set()
CoordCheckStop ==
    /\ coordPc = "wait"
    /\ coordPc' = IF stop_event THEN "afterloop" ELSE "chkdone"
    /\ UNCHANGED <<total, max_workers, started, server_queue,
                   unfinished_tasks, result_queue, collected, results,
                   completed, lock, stop_event, pause_event, wpc, wserver>>
    /\ UNCHANGED histVars
    /\ UNCHANGED <<cbVars, auxVars>>

\* lines 222-224: if server_queue.unfinished_tasks == 0: break
CoordCheckDone ==
    /\ coordPc = "chkdone"
    /\ coordPc' = IF QueueProcessed(unfinished_tasks, server_queue)
                  THEN "afterloop" ELSE "chkpause"
    /\ UNCHANGED <<total, max_workers, started, server_queue,
                   unfinished_tasks, result_queue, collected, results,
                   completed, lock, stop_event, pause_event, wpc, wserver>>
    /\ UNCHANGED histVars
    /\ UNCHANGED <<cbVars, auxVars>>

\* lines 226-232: if paused enter the pause wait, else time.sleep(0.2)
CoordCheckPause ==
    /\ coordPc = "chkpause"
    /\ coordPc' = IF pause_event THEN "pausewait" ELSE "wait"
    /\ UNCHANGED <<total, max_workers, started, server_queue,
                   unfinished_tasks, result_queue, collected, results,
                   completed, lock, stop_event, pause_event, wpc, wserver>>
    /\ UNCHANGED histVars
    /\ UNCHANGED <<cbVars, auxVars>>

\* faulty variant of the pause wait: clears the pause flag on leaving
CoordPauseWaitClears ==
    /\ coordPc = "pausewait"
    /\ coordPc' = IF pause_event /\ ~stop_event THEN "pausewait" ELSE "wait"
    /\ pause_event' = (pause_event /\ ~stop_event)
    /\ UNCHANGED <<total, max_workers, started, server_queue,
                   unfinished_tasks, result_queue, collected, results,
                   completed, lock, stop_event, wpc, wserver>>
    /\ UNCHANGED histVars
    /\ UNCHANGED <<cbVars, auxVars>>

\* lines 228-230: while pause and not stop: time.sleep(0.5)
CoordPauseWait ==
    /\ coordPc = "pausewait"
    /\ coordPc' = IF PauseWaitContinues(pause_event, stop_event)
                  THEN "pausewait" ELSE "wait"
    /\ UNCHANGED <<total, max_workers, started, server_queue,
                   unfinished_tasks, result_queue, collected, results,
                   completed, lock, stop_event, pause_event, wpc, wserver>>
    /\ UNCHANGED histVars
    /\ UNCHANGED <<cbVars, auxVars>>

\* line 234: if _stop_event.is_set()
CoordAfterLoop ==
    /\ coordPc = "afterloop"
    /\ coordPc' = IF StopSeenAfterLoop(stop_event) THEN "drainchk"
                                                   ELSE "collect"
    /\ UNCHANGED <<total, max_workers, started, server_queue,
                   unfinished_tasks, result_queue, collected, results,
                   completed, lock, stop_event, pause_event, wpc, wserver>>
    /\ UNCHANGED histVars
    /\ UNCHANGED <<cbVars, auxVars>>

\* line 237: while not server_queue.empty()
CoordDrainCheck ==
    /\ coordPc = "drainchk"
    /\ coordPc' = IF DrainContinues(server_queue) THEN "drainget"
                                                  ELSE "collect"
    /\ UNCHANGED <<total, max_workers, started, server_queue,
                   unfinished_tasks, result_queue, collected, results,
                   completed, lock, stop_event, pause_event, wpc, wserver>>
    /\ UNCHANGED histVars
    /\ UNCHANGED <<cbVars, auxVars>>

\* lines 238-242: get(block=False); task_done().  On an empty queue get
\* raises queue.Empty; the handler names Queue.Empty, an attribute the
\* Queue class does not have, so AttributeError leaves test_servers.
CoordDrainGet ==
    /\ coordPc = "drainget"
    /\ IF server_queue # <<>>
       THEN /\ server_queue' = QueueGetRest(server_queue)
            /\ takes' = [takes EXCEPT ![QueueGetItem(server_queue)] = @ + 1]
            /\ unfinished_tasks' = task_done(unfinished_tasks)
            /\ drained' = drained + 1
            /\ coordPc' = "drainchk"
       ELSE /\ coordPc' = "raised"
            /\ UNCHANGED <<server_queue, takes, unfinished_tasks, drained>>
    /\ UNCHANGED <<total, max_workers, started, result_queue,
                   collected, results, completed, lock, stop_event,
                   pause_event, wpc, wserver>>
    /\ UNCHANGED <<probes, rcbCalls, progressLog, dropped, droppedAtReturn,
                   inFlightAtReturn, deqInPause, completedAtPause>>
    /\ UNCHANGED <<cbVars, auxVars>>

\* lines 249-258: empty result_queue into results, sort, return
CoordCollect ==
    /\ coordPc = "collect"
    /\ collected' = result_queue
    /\ results' = SortResults(result_queue)
    /\ result_queue' = <<>>
    /\ coordPc' = "returned"
    /\ droppedAtReturn' = dropped
    /\ inFlightAtReturn' =
           Cardinality({w \in WorkerIds : wpc[w] \in {"recheck", "probe"}})
    /\ UNCHANGED <<total, max_workers, started, server_queue,
                   unfinished_tasks, completed, lock, stop_event,
                   pause_event, wpc, wserver>>
    /\ UNCHANGED <<takes, probes, rcbCalls, progressLog, drained, dropped, deqInPause, completedAtPause>>
    /\ UNCHANGED <<cbVars, auxVars>>

Coordinator ==
    \/ Setup
    \/ SpawnWorker
    \/ CoordCheckStop
    \/ CoordCheckDone
    \/ CoordCheckPause
    \/ CoordPauseWait
    \/ CoordAfterLoop
    \/ CoordDrainCheck
    \/ CoordDrainGet
    \/ CoordCollect

\* ------------------------------------------------ test_servers.worker()
\* line 168: while not _stop_event.is_set()
WCheckStop(w) ==
    /\ wpc[w] = "loop"
    /\ wpc' = [wpc EXCEPT ![w] = IF stop_event THEN "exited" ELSE "chkpause"]
    /\ UNCHANGED <<total, max_workers, coordPc, started,
                   server_queue, unfinished_tasks, result_queue, collected,
                   results, completed, lock, stop_event, pause_event,
                   wserver>>
    /\ UNCHANGED histVars
    /\ UNCHANGED <<cbVars, auxVars>>

\* lines 170-172: if paused, time.sleep(0.2) and continue
WCheckPause(w) ==
    /\ wpc[w] = "chkpause"
    /\ wpc' = [wpc EXCEPT ![w] = IF WorkerSeesPause(pause_event) THEN "loop"
                                                                  ELSE "get"]
    /\ UNCHANGED <<total, max_workers, coordPc, started,
                   server_queue, unfinished_tasks, result_queue, collected,
                   results, completed, lock, stop_event, pause_event,
                   wserver>>
    /\ UNCHANGED histVars
    /\ UNCHANGED <<cbVars, auxVars>>

\* lines 174-182: server_queue.get(block=True, timeout=0.1); on Empty the
\* worker leaves when active_count() <= max_workers + 1, else polls again
WGet(w) ==
    /\ wpc[w] = "get"
    /\ IF server_queue # <<>>
       THEN /\ wserver' = [wserver EXCEPT ![w] = QueueGetItem(server_queue)]
            /\ server_queue' = QueueGetRest(server_queue)
            /\ takes' = [takes EXCEPT ![QueueGetItem(server_queue)] = @ + 1]
            /\ deqInPause' = IF pause_event
                             THEN [deqInPause EXCEPT ![w] = @ + 1]
                             ELSE deqInPause
            /\ wpc' = [wpc EXCEPT ![w] = "recheck"]
       ELSE /\ \E others \in 0..MaxOtherThreads :
                   wpc' = [wpc EXCEPT ![w] =
                       IF WorkerMayExit(active_count(others), max_workers)
                       THEN "exited" ELSE "loop"]
            /\ UNCHANGED <<wserver, server_queue, takes, deqInPause>>
    /\ UNCHANGED <<total, max_workers, coordPc, started,
                   unfinished_tasks, result_queue, collected, results,
                   completed, lock, stop_event, pause_event>>
    /\ UNCHANGED <<probes, rcbCalls, progressLog, drained, dropped,
                   droppedAtReturn, inFlightAtReturn,
                   completedAtPause>>
    /\ UNCHANGED <<cbVars, auxVars>>

\* lines 184-186: stop seen after the get: task_done() and break
WRecheckStop(w) ==
    /\ wpc[w] = "recheck"
    /\ IF stop_event
       THEN /\ unfinished_tasks' = task_done(unfinished_tasks)
            /\ dropped' = dropped + 1
            /\ wserver' = [wserver EXCEPT ![w] = 0]
            /\ wpc' = [wpc EXCEPT ![w] = "exited"]
       ELSE /\ wpc' = [wpc EXCEPT ![w] = "probe"]
            /\ UNCHANGED <<unfinished_tasks, dropped, wserver>>
    /\ UNCHANGED <<total, max_workers, coordPc, started,
                   server_queue, result_queue, collected, results, completed,
                   lock, stop_event, pause_event>>
    /\ UNCHANGED <<takes, probes, rcbCalls, progressLog, drained,
                   droppedAtReturn, inFlightAtReturn, deqInPause,
                   completedAtPause>>
    /\ UNCHANGED <<cbVars, auxVars>>

\* lines 189-191: result = get_server_latency(...); result_queue.put(result)
\* under "if result:"
WProbe(w) ==
    /\ wpc[w] = "probe"
    /\ \E run \in PingRuns :
           LET py == get_server_latency(run.ip_address, run.system, run.proc)
               result == [server |-> wserver[w], latency |-> LatencyOf(py)]
           IN  /\ IF py.tag \notin {"None", "float"}
                  THEN \* get_server_latency raised: except at line 206
                       /\ wpc' = [wpc EXCEPT ![w] = "taskdone"]
                       /\ UNCHANGED result_queue
                  ELSE IF ResultTruthy(result)
                  THEN /\ result_queue' = Append(result_queue, result)
                       /\ wpc' = [wpc EXCEPT ![w] = "rcb"]
                  ELSE /\ wpc' = [wpc EXCEPT ![w] = "acquire"]
                       /\ UNCHANGED result_queue
               /\ failedProbe' = IF run.failed
                                 THEN failedProbe \cup {wserver[w]}
                                 ELSE failedProbe
    /\ probes' = [probes EXCEPT ![wserver[w]] = @ + 1]
    /\ UNCHANGED <<total, max_workers, coordPc, started,
                   server_queue, unfinished_tasks, collected, results,
                   completed, lock, stop_event, pause_event, wserver>>
    /\ UNCHANGED <<takes, rcbCalls, progressLog, drained, dropped,
                   droppedAtReturn, inFlightAtReturn, deqInPause,
                   completedAtPause, raisedFor>>
    /\ UNCHANGED auxVars

\* faulty variant of the result callback step: with stop set the worker
\* gives up the target it has probed
WResultCallbackUnlessStopped(w) ==
    /\ wpc[w] = "rcb"
    /\ rcbCalls' = IF stop_event THEN rcbCalls
                   ELSE [rcbCalls EXCEPT ![wserver[w]] = @ + 1]
    /\ wpc' = [wpc EXCEPT ![w] = IF stop_event THEN "taskdone"
                                 ELSE "acquire"]
    /\ UNCHANGED <<total, max_workers, coordPc, started,
                   server_queue, unfinished_tasks, result_queue, collected,
                   results, completed, lock, stop_event, pause_event,
                   wserver>>
    /\ UNCHANGED <<takes, probes, progressLog, drained, dropped,
                   droppedAtReturn, inFlightAtReturn, deqInPause,
                   completedAtPause, failedProbe, raisedFor>>
    /\ UNCHANGED auxVars

\* lines 192-196: result_callback(result); the callback returns or raises
\* an Exception, which the try around the call catches and logs
WResultCallback(w) ==
    /\ wpc[w] = "rcb"
    /\ rcbCalls' = [rcbCalls EXCEPT ![wserver[w]] = @ + 1]
    /\ \E raised \in BOOLEAN :
           /\ raisedFor' = IF raised THEN raisedFor \cup {wserver[w]}
                           ELSE raisedFor
           /\ wpc' = [wpc EXCEPT ![w] = AfterResultCallback(raised)]
    /\ UNCHANGED <<total, max_workers, coordPc, started,
                   server_queue, unfinished_tasks, result_queue, collected,
                   results, completed, lock, stop_event, pause_event,
                   wserver>>
    /\ UNCHANGED <<takes, probes, progressLog, drained, dropped,
                   droppedAtReturn, inFlightAtReturn, deqInPause,
                   completedAtPause, failedProbe>>
    /\ UNCHANGED auxVars

\* faulty variant of the counter step: the lock is not waited for
WAcquireUnlocked(w) ==
    /\ wpc[w] = "acquire"
    /\ lock' = w
    /\ completed' = IncrCompleted(completed)
    /\ wpc' = [wpc EXCEPT ![w] = "progress"]
    /\ UNCHANGED <<total, max_workers, coordPc, started,
                   server_queue, unfinished_tasks, result_queue, collected,
                   results, stop_event, pause_event, wserver>>
    /\ UNCHANGED histVars
    /\ UNCHANGED <<cbVars, auxVars>>

\* lines 198-199: with lock: completed += 1
WAcquire(w) ==
    /\ wpc[w] = "acquire"
    /\ lock = 0
    /\ lock' = w
    /\ completed' = IncrCompleted(completed)
    /\ wpc' = [wpc EXCEPT ![w] = "progress"]
    /\ UNCHANGED <<total, max_workers, coordPc, started,
                   server_queue, unfinished_tasks, result_queue, collected,
                   results, stop_event, pause_event, wserver>>
    /\ UNCHANGED histVars
    /\ UNCHANGED <<cbVars, auxVars>>

\* faulty variant of the progress step: no report while pause is set
WProgressUnlessPaused(w) ==
    /\ wpc[w] = "progress"
    /\ progressLog' = IF pause_event THEN progressLog
                      ELSE Append(progressLog,
                                  ProgressValue(completed, total))
    /\ lock' = 0
    /\ wpc' = [wpc EXCEPT ![w] = "taskdone"]
    /\ UNCHANGED <<total, max_workers, coordPc, started,
                   server_queue, unfinished_tasks, result_queue, collected,
                   results, completed, stop_event, pause_event, wserver>>
    /\ UNCHANGED <<takes, probes, rcbCalls, drained, dropped,
                   droppedAtReturn, inFlightAtReturn, deqInPause,
                   completedAtPause, failedProbe, raisedFor>>
    /\ UNCHANGED auxVars

\* lines 200-204: progress_callback(completed / total * 100); the callback
\* returns or raises an Exception, which the try around the call catches;
\* the with block then releases the lock
WProgress(w) ==
    /\ wpc[w] = "progress"
    /\ progressLog' = Append(progressLog, ProgressValue(completed, total))
    /\ \E raised \in BOOLEAN :
           raisedFor' = IF raised THEN raisedFor \cup {wserver[w]}
                        ELSE raisedFor
    /\ lock' = 0
    /\ wpc' = [wpc EXCEPT ![w] = "taskdone"]
    /\ UNCHANGED <<total, max_workers, coordPc, started,
                   server_queue, unfinished_tasks, result_queue, collected,
                   results, completed, stop_event, pause_event, wserver>>
    /\ UNCHANGED <<takes, probes, rcbCalls, drained, dropped,
                   droppedAtReturn, inFlightAtReturn, deqInPause,
                   completedAtPause, failedProbe>>
    /\ UNCHANGED auxVars

\* lines 208-209: finally: server_queue.task_done()
WTaskDone(w) ==
    /\ wpc[w] = "taskdone"
    /\ unfinished_tasks' = task_done(unfinished_tasks)
    /\ wserver' = [wserver EXCEPT ![w] = 0]
    /\ wpc' = [wpc EXCEPT ![w] = "loop"]
    /\ UNCHANGED <<total, max_workers, coordPc, started,
                   server_queue, result_queue, collected, results, completed,
                   lock, stop_event, pause_event>>
    /\ UNCHANGED histVars
    /\ UNCHANGED <<cbVars, auxVars>>

Worker(w) ==
    \/ WCheckStop(w)
    \/ WCheckPause(w)
    \/ WGet(w)
    \/ WRecheckStop(w)
    \/ WProbe(w)
    \/ WResultCallback(w)
    \/ WAcquire(w)
    \/ WProgress(w)
    \/ WTaskDone(w)

\* --------------------------------------------------------- specification
Next ==
    \/ SetStop
    \/ SetPause
    \/ ClearPause
    \/ Setup
    \/ SpawnWorker
    \/ CoordCheckStop
    \/ CoordCheckDone
    \/ CoordCheckPause
    \/ CoordPauseWait
    \/ CoordAfterLoop
    \/ CoordDrainCheck
    \/ CoordDrainGet
    \/ CoordCollect
    \/ \E w \in WorkerIds : Worker(w)

Spec == Init /\ [][Next]_vars

\* Threads are scheduled by the OS, so every thread that can take a step
\* eventually does.  Nothing is assumed of the external caller.
FairSpec ==
    /\ Spec
    /\ WF_vars(Coordinator)
    /\ \A w \in WorkerIds : WF_vars(Worker(w))

\* Only the thread running test_servers is assumed to keep running.
CoordFairSpec == Spec /\ WF_vars(Coordinator)

TypeOK ==
    /\ total \in 0..MaxServers
    /\ completed \in 0..MaxServers
    /\ unfinished_tasks \in 0..MaxServers
    /\ lock \in {0} \cup WorkerIds
    /\ Len(server_queue) <= total

\* =================================================================== claims
\* ------------------------------------- single calls of pure functions
\* arguments given to calculate_mbps: byte counts and durations (ms)
MbpsBytes == {-8192, -1, 0, 1, 8192, 65536, 1000000}
MbpsDurations == {-1000, 0, 5, 10, 11, 20, 1000, 5000}

Calls ==
    {[NoCall EXCEPT !.fn = "calculate_mbps", !.bytes_transferred = b,
                    !.duration_ms = d] :
        b \in MbpsBytes, d \in MbpsDurations}
    \cup {[NoCall EXCEPT !.fn = f, !.output = o] :
             f \in {"parse_unix_ping", "parse_windows_ping"},
             o \in PingOutputs}
    \cup {[NoCall EXCEPT !.fn = "ping_test", !.target_ip = ip,
                         !.system = sys, !.proc = p] :
             ip \in {"", "10.64.0.1"},
             sys \in {"windows", "linux"},
             p \in {Completed(c, o) : c \in {0, 1}, o \in PingOutputs}
                   \cup {Raised("TimeoutExpired"),
                         Raised("FileNotFoundError"), Raised("Exception")}}

FuncInit ==
    /\ total = 0
    /\ max_workers = 1
    /\ PoolStart
    /\ call \in Calls
    /\ ret = Pending
    /\ SpeedIdle
    /\ GuiIdle

CallCalculateMbps ==
    /\ call.fn = "calculate_mbps"
    /\ ret.tag = "pending"
    /\ ret' = PyFloat(calculate_mbps(call.bytes_transferred,
                                      call.duration_ms))
    /\ UNCHANGED <<progVars, histVars, cbVars, call, spVars, guiVars>>

CallParseUnixPing ==
    /\ call.fn = "parse_unix_ping"
    /\ ret.tag = "pending"
    /\ ret' = parse_unix_ping(call.output)
    /\ UNCHANGED <<progVars, histVars, cbVars, call, spVars, guiVars>>

CallParseWindowsPing ==
    /\ call.fn = "parse_windows_ping"
    /\ ret.tag = "pending"
    /\ ret' = parse_windows_ping(call.output)
    /\ UNCHANGED <<progVars, histVars, cbVars, call, spVars, guiVars>>

CallPingTest ==
    /\ call.fn = "ping_test"
    /\ ret.tag = "pending"
    /\ ret' = ping_test(call.target_ip, call.system, call.proc)
    /\ UNCHANGED <<progVars, histVars, cbVars, call, spVars, guiVars>>

FuncNext ==
    \/ CallCalculateMbps
    \/ CallParseUnixPing
    \/ CallParseWindowsPing
    \/ CallPingTest

FuncSpec == FuncInit /\ [][FuncNext]_vars

\* ------------------------------------- run_socket_ping_pong_test
\* Time is counted in ticks of one second; a step that takes less than the
\* 0.01 s calculate_mbps asks for takes no tick.  Bytes are counted one by
\* one, chunk_size being MaxChunk.
PortLists ==
    {p \in UNION {[1..n -> 1..MaxPorts] : n \in 0..MaxPorts} :
        \A i, j \in DOMAIN p : i # j => p[i] # p[j]}

SpeedInit ==
    /\ total = 0
    /\ max_workers = 1
    /\ PoolStart
    /\ call = NoCall
    /\ ret = Pending
    /\ sp_pc = "call"
    /\ ip_address \in {"", "10.64.0.1"}
    /\ ports \in PortLists
    /\ duration \in 0..MaxDuration
    /\ port_idx = 0
    /\ sp_result = <<NoMbps, NoMbps>>
    /\ attempts = <<>>
    /\ SessionStart
    /\ GuiIdle

poolVars == <<total, max_workers, coordPc, started, server_queue,
              unfinished_tasks, result_queue, collected, results, completed,
              lock, pause_event, wpc, wserver, histVars, cbVars, call, ret,
              guiVars>>

\* lines 422-428: a server without address returns (None, None) at once
SpCall ==
    /\ sp_pc = "call"
    /\ IF ip_address = ""
       THEN /\ sp_pc' = "returned"
            /\ UNCHANGED port_idx
       ELSE /\ sp_pc' = "portchk"
            /\ port_idx' = 1
    /\ UNCHANGED <<poolVars, stop_event, ip_address, ports, duration, sock,
                   total_bytes_sent, total_bytes_received,
                   bytes_received_this_round, loop_elapsed, round_left,
                   download_mbps, upload_mbps, sp_result, sends, attempts>>
    /\ UNCHANGED roundVars
    /\ UNCHANGED teardown
    /\ UNCHANGED recv_phases

\* lines 432-434: if stop_event and stop_event.is_set(): return None, None
PortLoopIgnoresStop(st) == FALSE      \* faulty variant: stop never read
PortLoopStops(st) == st

\* lines 431-434 and 452-453: the for loop ends after the last port; the
\* stop check comes before each port; otherwise the session is called and
\* its locals are set (lines 283-288)
SpPortCheck ==
    /\ sp_pc = "portchk"
    /\ IF port_idx > Len(ports) \/ PortLoopStops(stop_event)
       THEN /\ sp_pc' = "returned"
            /\ sp_result' = <<NoMbps, NoMbps>>
            /\ UNCHANGED attempts
       ELSE /\ sp_pc' = "connect"
            /\ attempts' = Append(attempts,
                                  [port |-> ports[port_idx],
                                   connected |-> FALSE,
                                   sent |-> 0, received |-> 0,
                                   dl |-> NoMbps, ul |-> NoMbps,
                                   error |-> "none"])
            /\ UNCHANGED sp_result
    /\ UNCHANGED <<poolVars, stop_event, ip_address, ports, duration,
                   port_idx, sock, total_bytes_sent, total_bytes_received,
                   bytes_received_this_round, loop_elapsed, round_left,
                   download_mbps, upload_mbps, sends>>
    /\ UNCHANGED roundVars
    /\ UNCHANGED teardown
    /\ UNCHANGED recv_phases

\* lines 291-312: socket(), settimeout, connect.  socket() may raise (no
\* socket then); connect may time out, fail, or raise something else; on
\* success the loop clock starts.
SpConnect ==
    /\ sp_pc = "connect"
    /\ \E outcome \in {"nosocket", "timeout", "error", "exception",
                        "connected"} :
           /\ sock' = IF outcome = "nosocket" THEN "none"
                      ELSE IF outcome = "connected" THEN "connected"
                      ELSE "created"
           /\ sp_pc' = IF outcome = "connected" THEN "loopchk" ELSE "finally"
           /\ attempts' = [attempts EXCEPT ![Len(attempts)].connected =
                                               (outcome = "connected")]
    /\ UNCHANGED <<poolVars, stop_event, ip_address, ports, duration,
                   port_idx, total_bytes_sent, total_bytes_received,
                   bytes_received_this_round, loop_elapsed, round_left,
                   download_mbps, upload_mbps, sp_result, sends>>
    /\ UNCHANGED roundVars
    /\ UNCHANGED teardown
    /\ UNCHANGED recv_phases

\* lines 322-329: a send that sent nothing or raised breaks the round
\* loop, which continues at line 373
AfterSendFailureEscapes == "finally"  \* faulty variant: leaves the try
AfterSendFailure == "calc"

\* lines 326 and 331-337: after a send that sent bytes the receive phase of
\* the same round follows
AfterSendPipelined == "loopchk"       \* faulty variant: no receive phase
AfterSend == "recvchk"

\* lines 339-341 and 362-363: stop seen in the receive loop raises
\* StopIteration, whose handler breaks the round loop
AfterStopInRecvEscapes == "finally"   \* faulty variant: leaves the try
AfterStopInRecv == "calc"

\* lines 364-367: socket.timeout raised by recv: pass, the while loop goes on
AfterRecvTimeout == "loopchk"

\* lines 348-350 and 368-371: an empty chunk raises socket.error, whose
\* handler (also that of any other recv error) breaks the round loop
AfterPeerClosedContinues == "loopchk" \* faulty variant: pass, not break
AfterPeerClosed == "calc"

\* lines 314-317: while time.monotonic() < loop_end_time, then the stop
\* check at the round boundary
SpLoopCheck ==
    /\ sp_pc = "loopchk"
    /\ sp_pc' = IF loop_elapsed < duration /\ ~stop_event
                THEN "send" ELSE "calc"
    /\ loop_error' = IF loop_elapsed < duration /\ stop_event
                     THEN "stop" ELSE loop_error
    /\ UNCHANGED <<rtt_samples, successful_exchanges>>
    /\ UNCHANGED <<poolVars, stop_event, ip_address, ports, duration,
                   port_idx, sock, total_bytes_sent, total_bytes_received,
                   bytes_received_this_round, loop_elapsed, round_left,
                   download_mbps, upload_mbps, sp_result, sends, attempts>>
    /\ UNCHANGED teardown
    /\ UNCHANGED recv_phases

\* lines 320-334: sent = sock.send(ping_data).  Zero bytes or an exception
\* break the loop; otherwise the receive phase of the round starts.
SpSend ==
    /\ sp_pc = "send"
    /\ sends' = sends + 1
    /\ \E dt \in IF sends < MaxFastRounds THEN {0, 1} ELSE {1} :
       \E sent \in {-1} \cup (0..MaxChunk) :    \* -1: send raised
           /\ loop_elapsed' = loop_elapsed + dt
           /\ IF sent <= 0
              THEN /\ sp_pc' = AfterSendFailure
                   /\ loop_error' = IF sent = 0 THEN "send0" ELSE "send"
                   /\ UNCHANGED <<total_bytes_sent,
                                  bytes_received_this_round, round_left>>
              ELSE /\ sp_pc' = AfterSend
                   /\ UNCHANGED loop_error
                   /\ total_bytes_sent' = total_bytes_sent + sent
                   /\ bytes_received_this_round' = 0
                   /\ round_left' = RoundTimeout
    /\ UNCHANGED <<poolVars, stop_event, ip_address, ports, duration,
                   port_idx, sock, total_bytes_received, download_mbps,
                   upload_mbps, sp_result, attempts, rtt_samples,
                   successful_exchanges>>
    /\ UNCHANGED teardown
    /\ UNCHANGED recv_phases

\* lines 337-344: the inner while, its stop check (StopIteration breaks
\* the round loop at line 362) and the remaining_time check
SpRecvCheck ==
    /\ sp_pc = "recvchk"
    /\ sp_pc' = IF bytes_received_this_round < MaxChunk /\ round_left > 0
                THEN IF stop_event THEN AfterStopInRecv ELSE "recv"
                ELSE "roundend"
    /\ loop_error' =
           IF bytes_received_this_round < MaxChunk /\ round_left > 0
              /\ stop_event
           THEN "stop_recv" ELSE loop_error
    /\ recv_phases' =
           IF bytes_received_this_round < MaxChunk /\ round_left > 0
              /\ ~stop_event
           THEN recv_phases ELSE recv_phases + 1
    /\ UNCHANGED <<rtt_samples, successful_exchanges>>
    /\ UNCHANGED <<poolVars, stop_event, ip_address, ports, duration,
                   port_idx, sock, total_bytes_sent, total_bytes_received,
                   bytes_received_this_round, loop_elapsed, round_left,
                   download_mbps, upload_mbps, sp_result, sends, attempts>>
    /\ UNCHANGED teardown

\* lines 346-352 and 362-371: chunk = sock.recv(...) with the remaining
\* time as timeout.  Data arrives within the time left; or recv raises
\* socket.timeout when the time is over (handler at 364: pass, the round
\* loop goes on); or the peer closed or recv failed (handler at 368: break)
SpRecv ==
    /\ sp_pc = "recv"
    /\ \/ \E n \in 1..(MaxChunk - bytes_received_this_round) :
          \E dt \in 0..round_left :
              /\ bytes_received_this_round' = bytes_received_this_round + n
              /\ round_left' = round_left - dt
              /\ loop_elapsed' = loop_elapsed + dt
              /\ sp_pc' = "recvchk"
              /\ UNCHANGED <<loop_error, recv_phases>>
       \/ /\ loop_elapsed' = loop_elapsed + round_left
          /\ round_left' = 0
          /\ sp_pc' = AfterRecvTimeout
          /\ recv_phases' = recv_phases + 1
          /\ UNCHANGED <<bytes_received_this_round, loop_error>>
       \/ /\ \E dt \in 0..round_left :
                 /\ loop_elapsed' = loop_elapsed + dt
                 /\ round_left' = round_left - dt
          /\ sp_pc' = AfterPeerClosed
          /\ loop_error' = "recv"
          /\ recv_phases' = recv_phases + 1
          /\ UNCHANGED bytes_received_this_round
    /\ UNCHANGED <<rtt_samples, successful_exchanges>>
    /\ UNCHANGED <<poolVars, stop_event, ip_address, ports, duration,
                   port_idx, sock, total_bytes_sent, total_bytes_received,
                   download_mbps, upload_mbps, sp_result, sends, attempts>>
    /\ UNCHANGED teardown

\* lines 354-360: the round is over, its bytes are added to the total
SpRoundEnd ==
    /\ sp_pc = "roundend"
    /\ total_bytes_received' =
           total_bytes_received + bytes_received_this_round
    /\ rtt_samples' = rtt_samples + 1
    /\ successful_exchanges' = IF bytes_received_this_round > 0
                               THEN successful_exchanges + 1
                               ELSE successful_exchanges
    /\ sp_pc' = "loopchk"
    /\ UNCHANGED loop_error
    /\ UNCHANGED <<poolVars, stop_event, ip_address, ports, duration,
                   port_idx, sock, total_bytes_sent,
                   bytes_received_this_round, loop_elapsed, round_left,
                   download_mbps, upload_mbps, sp_result, sends, attempts>>
    /\ UNCHANGED teardown
    /\ UNCHANGED recv_phases

\* lines 373-381: the aggregate speeds
SpCalc ==
    /\ sp_pc = "calc"
    /\ upload_mbps' = calculate_mbps(total_bytes_sent, loop_elapsed * 1000)
    /\ download_mbps' =
           calculate_mbps(total_bytes_received, loop_elapsed * 1000)
    /\ sp_pc' = "finally"
    /\ UNCHANGED <<poolVars, stop_event, ip_address, ports, duration,
                   port_idx, sock, total_bytes_sent, total_bytes_received,
                   bytes_received_this_round, loop_elapsed, round_left,
                   sp_result, sends, attempts>>
    /\ UNCHANGED roundVars
    /\ UNCHANGED teardown
    /\ UNCHANGED recv_phases

\* lines 392-394: an exception of sock.shutdown is swallowed by the bare
\* except, and sock.close is called next
AfterShutdownUnguarded(raised) == IF raised THEN "sessret" ELSE "close"
AfterShutdown(raised) == "close"

\* lines 395-397: an exception of sock.close is swallowed by the bare except
AfterClose(raised) == "sessret"

\* lines 389-394: finally: if sock: sock.shutdown(SHUT_RDWR), which returns
\* or raises
SpFinally ==
    /\ sp_pc = "finally"
    /\ IF sock = "none"
       THEN /\ sp_pc' = "sessret"
            /\ UNCHANGED teardown
       ELSE \E raised \in BOOLEAN :
                /\ teardown' = Append(teardown, [op |-> "shutdown",
                                                 raised |-> raised])
                /\ sp_pc' = AfterShutdown(raised)
    /\ UNCHANGED <<poolVars, stop_event, ip_address, ports, duration,
                   port_idx, sock, total_bytes_sent, total_bytes_received,
                   bytes_received_this_round, loop_elapsed, round_left,
                   download_mbps, upload_mbps, sp_result, sends, attempts>>
    /\ UNCHANGED roundVars
    /\ UNCHANGED recv_phases

\* lines 395-397: sock.close(), which returns or raises
SpClose ==
    /\ sp_pc = "close"
    /\ \E raised \in BOOLEAN :
           /\ teardown' = Append(teardown, [op |-> "close",
                                            raised |-> raised])
           /\ sp_pc' = AfterClose(raised)
    /\ sock' = "closed"
    /\ UNCHANGED <<poolVars, stop_event, ip_address, ports, duration,
                   port_idx, total_bytes_sent, total_bytes_received,
                   bytes_received_this_round, loop_elapsed, round_left,
                   download_mbps, upload_mbps, sp_result, sends, attempts>>
    /\ UNCHANGED roundVars
    /\ UNCHANGED recv_phases

\* lines 409 and 436-450: the session returns (download_mbps, upload_mbps);
\* the wrapper returns them when one is not None, else goes to the next
\* port
SpSessionReturn ==
    /\ sp_pc = "sessret"
    /\ attempts' = [attempts EXCEPT ![Len(attempts)] =
                       [@ EXCEPT !.sent = total_bytes_sent,
                                 !.received = total_bytes_received,
                                 !.dl = download_mbps,
                                 !.ul = upload_mbps,
                                 !.error = loop_error]]
    /\ IF SessionYieldsValue(download_mbps, upload_mbps)
       THEN /\ sp_result' = <<download_mbps, upload_mbps>>
            /\ sp_pc' = "returned"
            /\ UNCHANGED port_idx
       ELSE /\ port_idx' = NextPort(port_idx)
            /\ sp_pc' = "portchk"
            /\ UNCHANGED sp_result
    /\ sock' = "none"
    /\ total_bytes_sent' = 0
    /\ total_bytes_received' = 0
    /\ bytes_received_this_round' = 0
    /\ loop_elapsed' = 0
    /\ round_left' = 0
    /\ download_mbps' = NoMbps
    /\ upload_mbps' = NoMbps
    /\ sends' = 0
    /\ loop_error' = "none"
    /\ rtt_samples' = 0
    /\ successful_exchanges' = 0
    /\ teardown' = <<>>
    /\ recv_phases' = 0
    /\ UNCHANGED <<poolVars, stop_event, ip_address, ports, duration>>

\* the caller of the speed test sets the stop event
SpSetStop ==
    /\ sp_pc \notin {"idle", "returned"}
    /\ SetStop

SpeedNext ==
    \/ SpSetStop
    \/ SpCall
    \/ SpPortCheck
    \/ SpConnect
    \/ SpLoopCheck
    \/ SpSend
    \/ SpRecvCheck
    \/ SpRecv
    \/ SpRoundEnd
    \/ SpCalc
    \/ SpFinally
    \/ SpClose
    \/ SpSessionReturn

SpeedSpec == SpeedInit /\ [][SpeedNext]_vars

\* --------------------------------- the test controller of src/tester_gui.py
\* The handlers below run on the Tk main thread, one at a time, except
\* where a handler opens a modal message box: the message box runs its own
\* event loop until it is answered, and that loop dispatches timers
\* (root.after callbacks) and, where the message box is a Tk window, the
\* bind_all shortcuts Ctrl+T and Ctrl+X of lines 232-233.  A handler is
\* therefore cut at each message box it opens.  The pointer is grabbed by the
\* innermost message box, so buttons, menus and the server list react only
\* when no message box is open.
GuiInit ==
    /\ total = 0
    /\ max_workers = 1
    /\ PoolStart
    /\ call = NoCall
    /\ ret = Pending
    /\ SpeedIdle
    /\ GuiIdle

guiFrame == <<total, max_workers, coordPc, started, server_queue,
              unfinished_tasks, result_queue, collected, results, completed,
              lock, wpc, wserver, histVars, cbVars, call, ret, spVars>>

Push(kind) == Append(dialogs, kind)
Pop == SubSeq(dialogs, 1, Len(dialogs) - 1)
Top == dialogs[Len(dialogs)]

\* lines 680-699: mark the test as running, reset both flags, start the
\* run_test_loop thread
StartTestProcess ==
    /\ test_threads + cleanups < MaxThreads
    /\ test_in_progress' = TRUE
    /\ stop_event' = FALSE
    /\ pause_event' = FALSE
    /\ test_threads' = test_threads + 1
    /\ UNCHANGED cleanups

\* lines 658-699, reached directly or after the confirmation was answered
\* with yes: show a message box and return when no server is found to test,
\* start the test otherwise (d is dialogs once the confirmation is gone)
StartWithTargets(d) ==
    \E found \in BOOLEAN :
        IF found
        THEN /\ StartTestProcess
             /\ dialogs' = d
        ELSE /\ dialogs' = Append(d, "info")
             /\ UNCHANGED <<test_in_progress, stop_event, pause_event,
                            test_threads, cleanups>>

\* start_test_thread, lines 643-656 (Start button, Test menu, Ctrl+T):
\* a warning when a test is in progress, the Confirm Test All question when
\* nothing is selected, the start itself otherwise
StartTestThread ==
    /\ Len(dialogs) < MaxDialogs
    /\ IF test_in_progress
       THEN /\ dialogs' = Push("warning")
            /\ UNCHANGED <<test_in_progress, stop_event, pause_event,
                           test_threads, cleanups>>
       ELSE IF ~selected
       THEN /\ dialogs' = Push("confirm")
            /\ UNCHANGED <<test_in_progress, stop_event, pause_event,
                           test_threads, cleanups>>
       ELSE StartWithTargets(dialogs)
    /\ UNCHANGED <<selected, guiFrame>>

\* the innermost message box is answered: showwarning, showinfo and
\* showerror return to a handler that returns at once (lines 646-647,
\* 661-663, 674-676); askyesno returns to line 656 of start_test_thread,
\* which returns on no and goes on with lines 658-699 on yes
DialogAnswered ==
    /\ dialogs # <<>>
    /\ IF Top = "confirm"
       THEN \E yes \in BOOLEAN :
                IF yes
                THEN StartWithTargets(Pop)
                ELSE /\ dialogs' = Pop
                     /\ UNCHANGED <<test_in_progress, stop_event,
                                    pause_event, test_threads, cleanups>>
       ELSE /\ dialogs' = Pop
            /\ UNCHANGED <<test_in_progress, stop_event, pause_event,
                           test_threads, cleanups>>
    /\ UNCHANGED <<selected, guiFrame>>

\* stop_tests, lines 701-711 (Stop button, Test menu, Ctrl+X)
StopTests ==
    /\ test_in_progress
    /\ stop_event' = TRUE
    /\ UNCHANGED <<pause_event, guiVars, guiFrame>>

\* pause_resume_test, lines 725-738 (Pause button)
PauseResumeTest ==
    /\ dialogs = <<>>
    /\ test_in_progress
    /\ pause_event' = ~pause_event
    /\ UNCHANGED <<stop_event, guiVars, guiFrame>>

\* _toggle_checkbox and _toggle_all_checkboxes, lines 420-450: the selection
\* becomes empty or non-empty
ToggleSelection ==
    /\ dialogs = <<>>
    /\ selected' = ~selected
    /\ UNCHANGED <<test_in_progress, dialogs, test_threads, cleanups,
                   stop_event, pause_event, guiFrame>>

\* run_test_loop, lines 741-1029: the thread leaves its loop (all servers
\* done, stop seen or an exception) and the last statement of its finally
\* block schedules _test_cleanup on the main thread
RunTestLoopEnds ==
    /\ test_threads > 0
    /\ test_threads' = test_threads - 1
    /\ cleanups' = cleanups + 1
    /\ UNCHANGED <<test_in_progress, selected, dialogs, stop_event,
                   pause_event, guiFrame>>

\* _test_cleanup, lines 713-723, run by the timer of line 1029
TestCleanup ==
    /\ cleanups > 0
    /\ cleanups' = cleanups - 1
    /\ test_in_progress' = FALSE
    /\ UNCHANGED <<selected, dialogs, test_threads, stop_event, pause_event,
                   guiFrame>>

GuiNext ==
    \/ StartTestThread
    \/ DialogAnswered
    \/ StopTests
    \/ PauseResumeTest
    \/ ToggleSelection
    \/ RunTestLoopEnds
    \/ TestCleanup

GuiSpec == GuiInit /\ [][GuiNext]_vars

ServersOf(q) == {q[i].server : i \in DOMAIN q}
Occurrences(q, s) == Cardinality({i \in DOMAIN q : q[i].server = s})
Returned == coordPc = "returned"
WorkersQuiet == \A w \in WorkerIds : wserver[w] = 0
Held(s) == \E w \in WorkerIds : wserver[w] = s
Published(s) == Occurrences(result_queue, s) + Occurrences(collected, s)
HundredDelivered == \E i \in DOMAIN progressLog : IsHundred(progressLog[i])
OnePerSubmitted ==
    /\ Len(results) = total
    /\ ServersOf(results) = 1..total
    /\ \A i \in DOMAIN results : results[i].latency \in PingOutcomes

\* C1: a run of test_servers on N >= 1 servers in which stop is never set
\* and pause is in the end left cleared returns, and the list it returns
\* has exactly N results, one per submitted server, each with a numeric
\* latency or latency None.
C1_ReturnsNResults ==
    /\ [](Returned /\ ~stop_event /\ total >= 1 => OnePerSubmitted)
    /\ ([]<>pause_event \/ <>(stop_event \/ Returned))
C1_Witness ==
    /\ Returned /\ ~stop_event
    /\ total >= 2 /\ started >= 2
    /\ Len(results) = total

\* C2: under every interleaving each submitted server is removed from the
\* server queue at most once, probed at most once, and appears at most once
\* in the result queue and in the returned list.
C2_AtMostOnce ==
    \A s \in ServerIds :
        /\ takes[s] <= 1
        /\ probes[s] <= 1
        /\ Occurrences(result_queue, s) <= 1
        /\ Occurrences(results, s) <= 1
        /\ Cardinality({w \in WorkerIds : wserver[w] = s}) <= 1
C2_Witness ==
    /\ stop_event
    /\ drained >= 1
    /\ \E s \in ServerIds : probes[s] = 1 /\ Occurrences(results, s) = 1

C4_NeverRaises == coordPc # "raised"

\* C5: once stop is set, test_servers returns after boundedly many of its
\* own steps, whether or not any worker makes progress (checked with only
\* the coordinator scheduled fairly).
C5_StopReturns == stop_event ~> Returned

\* C6: while pause is set and stop is not, no worker dequeues and the
\* completed counter does not advance.
\* C6 as claimed:
C6_Original ==
    [][(pause_event /\ ~stop_event) =>
           (takes' = takes /\ completed' = completed)]_vars
\* C6 as amended: while pause is set and stop is not, each worker dequeues at
\* most one more server and the completed counter advances by at most one
\* per started worker.
C6_PauseTolerance ==
    (pause_event /\ ~stop_event) =>
        /\ \A w \in WorkerIds : deqInPause[w] <= 1
        /\ completed - completedAtPause <= started
C6_Witness ==
    /\ pause_event /\ ~stop_event
    /\ \E w \in WorkerIds : deqInPause[w] = 1
    /\ completed > completedAtPause

\* C7: the values passed to progress_callback never decrease, and when the
\* run returns without stop the last value passed is exactly 100.
C7_ProgressMonotone ==
    /\ \A i, j \in DOMAIN progressLog :
           i < j => FracLeq(progressLog[i], progressLog[j])
    /\ (Returned /\ ~stop_event /\ total >= 1) =>
           /\ progressLog # <<>>
           /\ IsHundred(progressLog[Len(progressLog)])
C7_Witness ==
    /\ Returned /\ ~stop_event
    /\ Len(progressLog) >= 2
    /\ IsHundred(progressLog[Len(progressLog)])
    /\ ~IsHundred(progressLog[1])

\* C8: progress_callback receives 100 only when workers probed and published
\* all N servers and stop was not set.
\* C8 as claimed (the stop part): no 100 is delivered while stop is set.
C8_Original ==
    [][(progressLog' # progressLog
          /\ IsHundred(progressLog'[Len(progressLog')])) => ~stop_event]_vars
\* C8 as amended: 100 is received only when workers probed and published all
\* N servers and none was skipped; stop may be set by then.
C8_HundredMeansAllProbed ==
    HundredDelivered =>
        /\ \A s \in 1..total : probes[s] = 1 /\ Published(s) = 1
        /\ drained = 0
        /\ dropped = 0
C8_Witness ==
    /\ HundredDelivered
    /\ stop_event
    /\ total >= 2
    /\ Returned /\ Len(results) < total

\* C9: result_callback is invoked exactly once for every submitted server,
\* probed or skipped.
\* C9 as claimed (stated for a run that has returned, with the queue empty
\* and every worker done with its server):
C9_Original ==
    (Returned /\ WorkersQuiet /\ server_queue = <<>>) =>
        \A s \in 1..total : rcbCalls[s] = 1
\* C9 as amended: result_callback is invoked exactly once for every server
\* a worker probed, and never for a server skipped because of stop.
C9_CallbackPerProbed ==
    \A s \in ServerIds :
        /\ rcbCalls[s] <= 1
        /\ rcbCalls[s] = 1 => probes[s] = 1
        /\ (probes[s] = 1 /\ ~\E w \in WorkerIds :
                                 wserver[w] = s /\ wpc[w] = "rcb")
              => rcbCalls[s] = 1
        /\ (takes[s] = 1 /\ probes[s] = 0 /\ ~Held(s)) => rcbCalls[s] = 0
C9_Witness ==
    /\ Returned /\ WorkersQuiet
    /\ \E s \in 1..total : probes[s] = 1 /\ rcbCalls[s] = 1
    /\ \E s \in 1..total : takes[s] = 1 /\ probes[s] = 0 /\ rcbCalls[s] = 0

\* C10: the returned list holds the collected results in ascending order of
\* latency, every result with latency None after every result with a number.
C10_SortedNoneLast ==
    Returned =>
        /\ Len(results) = Len(collected)
        /\ \A s \in ServerIds :
               Occurrences(results, s) = Occurrences(collected, s)
        /\ \A i, j \in DOMAIN results :
               i < j =>
                 /\ results[i].latency = None => results[j].latency = None
                 /\ (results[i].latency # None /\ results[j].latency # None)
                       => results[i].latency <= results[j].latency
C10_Witness ==
    /\ Returned
    /\ Len(collected) >= 2
    /\ collected[1].latency = None
    /\ collected[2].latency # None
    /\ results[1].latency # None

\* the worker holding server s has counted it (completed += 1 is done)
Counted(s) ==
    /\ probes[s] = 1
    /\ \A w \in WorkerIds :
           wserver[w] = s => wpc[w] \in {"progress", "taskdone"}
\* the item of server s is finished: dequeued and task_done called for it
Finished(s) == takes[s] >= 1 /\ ~Held(s)

\* C11: an exception raised by result_callback or progress_callback is
\* caught where the callback is called and does not end the worker's loop:
\* the result of that server stays in the result collection, the worker
\* stays on the path that increments completed, releases the lock and calls
\* task_done; completed counts every probed server past the increment, the
\* lock is held only during the progress step, and unfinished_tasks is the
\* number of submitted servers not yet finished.
C11_CallbackErrorsContained ==
    /\ \A s \in raisedFor : Published(s) = 1
    /\ \A w \in WorkerIds :
           wserver[w] \in raisedFor =>
               wpc[w] \in {"acquire", "progress", "taskdone"}
    /\ completed = Cardinality({s \in ServerIds : Counted(s)})
    /\ lock # 0 => wpc[lock] = "progress"
    /\ coordPc # "call" =>
           unfinished_tasks =
               total - Cardinality({s \in ServerIds : Finished(s)})
\* a single worker probes server 2 after a callback raised for server 1,
\* whose result is published and counted
C11_Witness ==
    /\ started = 1
    /\ 1 \in raisedFor
    /\ Published(1) = 1
    /\ completed = 1
    /\ \E w \in WorkerIds : wserver[w] = 2 /\ wpc[w] = "probe"

\* every published result of server s has latency None
PublishedAsNone(s) ==
    /\ \A i \in DOMAIN result_queue :
           result_queue[i].server = s => result_queue[i].latency = None
    /\ \A i \in DOMAIN collected :
           collected[i].server = s => collected[i].latency = None

\* C12: a probe that fails (no address, ping exits non-zero, times out, is
\* not found, raises, or prints nothing parsable) becomes one published
\* result with latency None; it aborts neither the worker nor the pool: a
\* run in which stop is never set and pause is in the end left cleared
\* still returns, with one result per submitted server, the failed ones
\* with latency None.
C12_ProbeFailureIsolated ==
    /\ [](\A s \in failedProbe : Published(s) = 1 /\ PublishedAsNone(s))
    /\ [](Returned /\ ~stop_event /\ total >= 1 =>
            /\ ServersOf(results) = 1..total
            /\ Len(results) = total
            /\ \A i \in DOMAIN results :
                   results[i].server \in failedProbe <=>
                       results[i].latency = None)
    /\ ([]<>pause_event \/ <>(stop_event \/ Returned))
\* a run of two servers returned: the probe of server 1 failed, the probe of
\* server 2 succeeded, and both are in the returned list
C12_Witness ==
    /\ Returned
    /\ ~stop_event
    /\ failedProbe = {1}
    /\ Len(results) = 2
    /\ results[1].server = 2 /\ results[1].latency # None
    /\ results[2].server = 1 /\ results[2].latency = None

\* the parser ping_test uses on the given system finds a latency
Parses(system, output) ==
    IF system = "windows"
    THEN parse_windows_ping(output).tag = "float"
    ELSE parse_unix_ping(output).tag = "float"
PingTestDone == call.fn = "ping_test" /\ ret.tag # "pending"

\* C13: ping_test never raises.  It returns None when the target is empty,
\* when ping exits non-zero, when running it raises TimeoutExpired,
\* FileNotFoundError or any other exception, and when it exits zero with
\* output the parser finds no latency in; it returns a number exactly when
\* the exit code is zero and the output parses, and then the parsed number.
C13_PingTestTotal ==
    PingTestDone =>
        /\ ret.tag \in {"None", "float"}
        /\ ret.tag = "float" <=>
               /\ call.target_ip # ""
               /\ call.proc.kind = "completed"
               /\ call.proc.returncode = 0
               /\ Parses(call.system, call.proc.stdout)
        /\ ret.tag = "float" =>
               ret = IF call.system = "windows"
                     THEN parse_windows_ping(call.proc.stdout)
                     ELSE parse_unix_ping(call.proc.stdout)
\* ping exited zero, the parser raised ValueError on its output, and
\* ping_test returned None
C13_Witness ==
    /\ PingTestDone
    /\ call.target_ip # ""
    /\ call.system = "linux"
    /\ call.proc.kind = "completed"
    /\ call.proc.returncode = 0
    /\ parse_unix_ping(call.proc.stdout).tag = "ValueError"
    /\ ret = PyNone

\* number of callback invocations test_servers has made so far
RECURSIVE SumOf(_, _)
SumOf(f, S) ==
    IF S = {} THEN 0
    ELSE LET x == CHOOSE x \in S : TRUE IN f[x] + SumOf(f, S \ {x})
CallbackInvocations == Len(progressLog) + SumOf(rcbCalls, ServerIds)

\* C14 as stated: a call with an empty server list returns an empty list,
\* starts no worker, and reports the condition to its caller once (one
\* callback invocation).
C14_Original ==
    (Returned /\ total = 0) =>
        /\ results = <<>>
        /\ started = 0
        /\ CallbackInvocations = 1
\* C14: test_servers called with an empty server list returns an empty
\* list at once, without raising and without entering its wait loop, starts
\* no worker, and invokes neither callback: nothing but the empty return
\* value tells the caller of the condition.
C14_EmptyListReturnsEmpty ==
    total = 0 =>
        /\ coordPc \in {"call", "returned"}
        /\ results = <<>>
        /\ started = 0
        /\ \A w \in WorkerIds : wpc[w] = "unstarted"
        /\ CallbackInvocations = 0
\* the call with an empty list has returned
C14_Witness == total = 0 /\ Returned /\ results = <<>>

SpReturned == sp_pc = "returned"
NoResult == <<NoMbps, NoMbps>>
\* the sessions run on port p so far
AttemptsOf(p) == {i \in DOMAIN attempts : attempts[i].port = p}
NoneConnected == \A i \in DOMAIN attempts : ~attempts[i].connected
YieldedValue(i) == attempts[i].dl # NoMbps \/ attempts[i].ul # NoMbps

\* C15: when every port of the list was tried and failed to connect,
\* run_socket_ping_pong_test returns (None, None) and each port was tried
\* exactly once; a call that returns with no connection made and stop not
\* set has tried the whole list; and no port is ever tried twice.
C15_AllPortsFailToConnect ==
    /\ \A i \in DOMAIN ports : Cardinality(AttemptsOf(ports[i])) <= 1
    /\ (/\ SpReturned
        /\ NoneConnected
        /\ \A i \in DOMAIN ports : AttemptsOf(ports[i]) # {}) =>
           /\ sp_result = NoResult
           /\ \A i \in DOMAIN ports : Cardinality(AttemptsOf(ports[i])) = 1
    /\ (SpReturned /\ NoneConnected /\ ~stop_event /\ ip_address # "") =>
           /\ sp_result = NoResult
           /\ Len(attempts) = Len(ports)
           /\ \A i \in DOMAIN ports : Cardinality(AttemptsOf(ports[i])) = 1
\* a list of MaxPorts ports, every one tried once without a connection
C15_Witness ==
    /\ SpReturned
    /\ Len(ports) = MaxPorts
    /\ Len(attempts) = MaxPorts
    /\ NoneConnected
    /\ sp_result = NoResult

C17_NoBytesMeansNone ==
    (/\ SpReturned
     /\ \A i \in DOMAIN attempts :
            \/ ~attempts[i].connected
            \/ attempts[i].sent = 0 /\ attempts[i].received = 0) =>
        sp_result = NoResult

MbpsDone == call.fn = "calculate_mbps" /\ ret.tag # "pending"
RECURSIVE Gcd(_, _)
Gcd(a, b) == IF b = 0 THEN a ELSE Gcd(b, a % b)
\* the fraction f is n/m (all positive)
SameFraction(f, n, m) ==
    /\ f.num \div Gcd(f.num, f.den) = n \div Gcd(n, m)
    /\ f.den \div Gcd(f.num, f.den) = m \div Gcd(n, m)

\* C18: calculate_mbps never fails; for more than 0.01 s and more than 0
\* bytes it returns bytes * 8 / (seconds * 1,000,000), which is 8.0 for
\* 1,000,000 bytes in 1.0 s; for 0.01 s or less, or 0 bytes or less, it
\* returns 0.0 whatever the other argument is.
C18_CalculateMbps ==
    MbpsDone =>
        LET b == call.bytes_transferred
            d == call.duration_ms
            r == ret.v
        IN  /\ ret.tag = "float"
            /\ r.den > 0
            /\ (d > 10 /\ b > 0) => SameFraction(r, b * 8, d * 1000)
            /\ (d <= 10 \/ b <= 0) => r.num = 0
            /\ (b = 1000000 /\ d = 1000) => r.num = 8 * r.den
\* 1,000,000 bytes in 1.0 s gave 8.0
C18_Witness ==
    /\ MbpsDone
    /\ call.bytes_transferred = 1000000
    /\ call.duration_ms = 1000
    /\ ret.v.num = 8 * ret.v.den

UnixDone == call.fn = "parse_unix_ping" /\ ret.tag # "pending"
IsNumber(t) == t.k \in {"int", "dec"}
\* the text 'rtt min/avg/max/mdev = A/B/C/D ms' starts at token i of line
RttTextAt(line, i) ==
    /\ i + 12 <= Len(line)
    /\ <<line[i].k, line[i + 1].k, line[i + 2].k, line[i + 3].k>> =
           <<"hdr", "sp", "eq", "sp">>
    /\ \A j \in {4, 6, 8, 10} : IsNumber(line[i + j])
    /\ \A j \in {5, 7, 9} : line[i + j].k = "slash"
    /\ line[i + 11].k = "sp" /\ line[i + 12].k = "ms"
RttPlaces(output) ==
    {m \in UNION {{<<l, i>> : i \in DOMAIN output[l]} : l \in DOMAIN output} :
        RttTextAt(output[m[1]], m[2])}
FirstPlace(S) ==
    CHOOSE m \in S : \A n \in S : m[1] < n[1] \/ (m[1] = n[1] /\ m[2] <= n[2])
\* the positions of the second '/'-separated token after the first '=' of
\* a line: from the first '/' after that '=' up to the next '/'
FirstEq(line) ==
    CHOOSE e \in DOMAIN line :
        line[e].k = "eq" /\ \A j \in 1..(e - 1) : line[j].k # "eq"
SlashesAfterEq(line) ==
    {s \in DOMAIN line : s > FirstEq(line) /\ line[s].k = "slash"}
SecondTokenPositions(line) ==
    LET S == SlashesAfterEq(line)
        s1 == CHOOSE s \in S : \A t \in S : s <= t
    IN {p \in DOMAIN line : p > s1 /\ \A t \in S \ {s1} : p < t}
\* the line has 'avg' and '=', and its second token after '=' is a number
\* (blanks around it aside)
Qualifies(line) ==
    /\ \E i \in DOMAIN line : line[i].k \in {"hdr", "avgword"}
    /\ \E i \in DOMAIN line : line[i].k = "eq"
    /\ SlashesAfterEq(line) # {}
    /\ \E p \in SecondTokenPositions(line) :
           /\ IsNumber(line[p])
           /\ \A q \in SecondTokenPositions(line) \ {p} : line[q].k = "sp"
SecondTokenValue(line) ==
    line[CHOOSE p \in SecondTokenPositions(line) : IsNumber(line[p])].v
QualifyingLines(output) == {l \in DOMAIN output : Qualifies(output[l])}

\* C19: parse_unix_ping returns B for an output that contains
\* 'rtt min/avg/max/mdev = A/B/C/D ms'; when the output does not contain
\* it, the second '/'-separated token after '=' of the first line that has
\* 'avg' and '=' and whose token is a number; and None when there is no
\* such line.
C19_ParseUnixPing ==
    UnixDone =>
        LET o == call.output
        IN  IF RttPlaces(o) # {}
            THEN LET m == FirstPlace(RttPlaces(o))
                 IN ret = PyFloat(o[m[1]][m[2] + 6].v)
            ELSE IF QualifyingLines(o) # {}
            THEN LET l == CHOOSE l \in QualifyingLines(o) :
                              \A k \in QualifyingLines(o) : l <= k
                 IN ret = PyFloat(SecondTokenValue(o[l]))
            ELSE ret = PyNone

WinDone == call.fn = "parse_windows_ping" /\ ret.tag # "pending"
\* 'Average = ' starts at token i of line
AverageEqAt(line, i) ==
    /\ i + 4 <= Len(line)
    /\ <<line[i].k, line[i + 1].k, line[i + 2].k, line[i + 3].k>> =
           <<"Average", "sp", "eq", "sp">>
\* 'Average = N ms' with N a number, the blank before 'ms' present (as the
\* pattern is written) or not (as in 'Average = 15ms')
AverageLooseAt(line, i) ==
    /\ AverageEqAt(line, i)
    /\ IsNumber(line[i + 4])
    /\ \/ i + 5 <= Len(line) /\ line[i + 5].k = "ms"
       \/ /\ i + 6 <= Len(line)
          /\ line[i + 5].k = "sp"
          /\ line[i + 6].k = "ms"
\* 'Average = N' with N a run of digits, and 'ms' right after it
AverageDigitsAt(line, i) ==
    /\ AverageEqAt(line, i)
    /\ i + 5 <= Len(line)
    /\ line[i + 4].k = "int"
    /\ line[i + 5].k = "ms"
AllPlaces(output) ==
    UNION {{<<l, i>> : i \in DOMAIN output[l]} : l \in DOMAIN output}

\* C20 as stated: parse_windows_ping returns N for an output that contains
\* 'Average = N ms' (15.0 for 'Average = 15ms'), None for any other output.
C20_Original ==
    WinDone =>
        LET o == call.output
            S == {m \in AllPlaces(o) : AverageLooseAt(o[m[1]], m[2])}
        IN  IF S # {}
            THEN ret = PyFloat(o[FirstPlace(S)[1]][FirstPlace(S)[2] + 4].v)
            ELSE ret = PyNone
\* C20: parse_windows_ping returns N as a number for an output that
\* contains 'Average = N' with N a run of decimal digits followed at once
\* by 'ms' (15.0 for 'Average = 15ms'), taking the first such place, and
\* None for any other output: 'Average = 15 ms' and 'Average = 23.4ms'
\* give None.
C20_WindowsDigitsThenMs ==
    WinDone =>
        LET o == call.output
            S == {m \in AllPlaces(o) : AverageDigitsAt(o[m[1]], m[2])}
        IN  IF S # {}
            THEN ret = PyFloat(o[FirstPlace(S)[1]][FirstPlace(S)[2] + 4].v)
            ELSE ret = PyNone
\* 'Average = 15ms' on the second line of an output gave 15.0
C20_Witness ==
    /\ WinDone
    /\ Len(call.output) = 2
    /\ call.output[2] = WinLine(IntTok(15))
    /\ ret = PyFloat(150)

\* --------------------------------------------------------------- C21
QueueExhausted ==
    coordPc \notin {"call", "spawn"} /\ server_queue = <<>>
AllWorkersExited ==
    \A w \in WorkerIds : wpc[w] \in {"unstarted", "exited"}

\* C21: after all targets have been dequeued and the queue is empty, every
\* worker eventually exits its loop even if stop is never set (pause being
\* in the end left cleared), however many other threads are alive in the
\* process.
C21_WorkersExitOnEmpty ==
    (<>[]~pause_event) => (QueueExhausted ~> AllWorkersExited)


\* --------------------------------------------------------------- C22
\* s was taken off the queue and let go without a probe: drained by the
\* coordinator or dropped by a worker on its post-dequeue stop check
Skipped(s) == takes[s] = 1 /\ ~Held(s) /\ probes[s] = 0
DrainOver == coordPc \in {"collect", "returned", "raised"}
DrainStep == drained' = drained + 1

\* C22: on stop the coordinator drains the targets still in the queue, each
\* one accounted as skipped (task_done without a probe); after the drain the
\* queue is empty, a drained target is never probed, published or reported,
\* and every worker exits without starting on another target.
C22_StopDrain ==
    /\ [](DrainOver => server_queue = <<>>)
    /\ [][DrainStep =>
            /\ stop_event
            /\ unfinished_tasks' = unfinished_tasks - 1
            /\ server_queue' = Tail(server_queue)
            /\ \E s \in ServerIds :
                   s = Head(server_queue) /\ Skipped(s)']_vars
    /\ [][\A s \in ServerIds :
            Skipped(s) =>
                (Skipped(s) /\ Published(s) = 0 /\ rcbCalls[s] = 0)']_vars
    /\ [][stop_event =>
            \A w \in WorkerIds : wpc'[w] = "probe" => wpc[w] = "probe"]_vars
    /\ <>[](stop_event => AllWorkersExited)
\* a stopped run: one target was drained by the coordinator, the drain is
\* over and every worker has exited
C22_Witness ==
    /\ stop_event /\ DrainOver /\ drained >= 1
    /\ \E s \in ServerIds : Skipped(s)
    /\ started >= 1 /\ AllWorkersExited


\* --------------------------------------------------------------- C23
\* worker w leaves its post-dequeue re-check having seen stop set
DropStep(w) == wpc[w] = "recheck" /\ stop_event /\ wpc'[w] # "recheck"
\* queue accounting: task_done was called once for every target that was
\* taken off the queue and let go, and for no other
AccountedOnce ==
    coordPc # "call" =>
        total - unfinished_tasks =
            Cardinality({s \in ServerIds : takes[s] >= 1 /\ ~Held(s)})

\* C23: a worker that has dequeued a target and finds stop set on its
\* re-check does not probe the target, publishes nothing and calls no
\* callback for it, calls task_done for it once, and exits its loop for
\* good; the target is never probed later either.
C23_DropOnRecheck ==
    /\ [][\A w \in WorkerIds : DropStep(w) =>
            /\ wpc'[w] = "exited"
            /\ unfinished_tasks' = unfinished_tasks - 1
            /\ probes' = probes /\ rcbCalls' = rcbCalls
            /\ result_queue' = result_queue
            /\ progressLog' = progressLog /\ completed' = completed
            /\ \E s \in ServerIds : s = wserver[w] /\ Skipped(s)']_vars
    /\ [][\A w \in WorkerIds : wpc[w] = "exited" => wpc'[w] = "exited"]_vars
    /\ [][\A s \in ServerIds : Skipped(s) => probes'[s] = 0]_vars
    /\ [](\A s \in ServerIds :
            Skipped(s) => Published(s) = 0 /\ rcbCalls[s] = 0)
    /\ []AccountedOnce
\* a worker dropped the only target taken so far and exited; the coordinator
\* drained nothing
C23_Witness ==
    /\ dropped = 1 /\ drained = 0
    /\ \E w \in WorkerIds : wpc[w] = "exited"
    /\ \E s \in ServerIds : Skipped(s)
    /\ total - unfinished_tasks = 1


\* --------------------------------------------------------------- C24
StoppedWhilePaused == stop_event /\ pause_event
\* a worker held back by pause: at the top of its loop or in the pause sleep
PausedWorker(w) == wpc[w] \in {"loop", "chkpause"}

\* C24: with stop set while pause is set, and pause kept set from then on,
\* every paused worker exits and the coordinator leaves its pause wait and
\* returns.
C24_StopFromPause ==
    /\ \A w \in WorkerIds :
           (StoppedWhilePaused /\ PausedWorker(w)) ~>
               (wpc[w] = "exited" \/ ~pause_event)
    /\ (StoppedWhilePaused /\ coordPc = "pausewait") ~>
           (Returned \/ ~pause_event)


\* --------------------------------------------------------------- C25
\* min(max_workers, number of targets), written out
WorkerCount == IF max_workers <= total THEN max_workers ELSE total
StartedWorkers == {w \in WorkerIds : wpc[w] # "unstarted"}
Probing == {w \in WorkerIds : wpc[w] = "probe"}

\* C25: test_servers starts exactly min(max_workers, N) worker threads, so
\* at no moment are more than min(max_workers, N) targets being probed.
C25_WorkerCount ==
    /\ Cardinality(StartedWorkers) = started
    /\ started <= WorkerCount
    /\ coordPc \notin {"call", "spawn"} => started = WorkerCount
    /\ Cardinality(Probing) <= WorkerCount
    /\ Cardinality({s \in ServerIds : Held(s)}) <= WorkerCount
\* fewer targets than configured workers: one worker was started for the one
\* target and is probing it while the coordinator waits
C25_Witness ==
    /\ total = 1 /\ max_workers = 2
    /\ coordPc = "wait" /\ started = 1
    /\ Cardinality(Probing) = 1


\* --------------------------------------------------------------- C26
PoolStep == Coordinator \/ \E w \in WorkerIds : Worker(w)
CallerStep == SetStop \/ SetPause \/ ClearPause

\* C26: no step of a worker or of the test_servers coordinator sets or
\* clears the stop flag or the pause flag; a flag changes only in a step of
\* the external caller.
C26_FlagsOnlyByCaller ==
    /\ [][PoolStep => UNCHANGED <<stop_event, pause_event>>]_vars
    /\ [][stop_event' # stop_event \/ pause_event' # pause_event =>
            CallerStep /\ UNCHANGED <<coordPc, wpc, wserver, server_queue,
                                      unfinished_tasks, result_queue,
                                      completed, lock>>]_vars
\* both flags are set by the caller; the coordinator has returned and a
\* worker has taken a target and exited
C26_Witness ==
    /\ stop_event /\ pause_event
    /\ Returned
    /\ \E w \in WorkerIds : wpc[w] = "exited"
    /\ \E s \in ServerIds : takes[s] = 1


\* --------------------------------------------------------------- C27
\* the session of attempt i has returned to the wrapper
SessionOver(i) == i < Len(attempts) \/ sp_pc \in {"portchk", "returned"}
ZeroMbps == [num |-> 0, den |-> 1]
\* the ways a connected session ends: "none" is the duration elapsing
LoopErrors == {"none", "stop", "stop_recv", "send0", "send", "recv"}

SendFailed == loop_error \in {"send0", "send"}
\* bytes * 8 / (seconds * 1,000,000) for b bytes in t ticks of one second
MbpsOf(b, t) ==
    IF b > 0 /\ t >= 1 THEN [num |-> b * 8, den |-> t * 1000000]
    ELSE ZeroMbps

\* C28: a send that reports zero bytes or raises ends the session at once:
\* the failing send adds nothing to the totals, no receive and no further
\* send follow it, and the bytes of the earlier rounds stay in the totals
\* from which the two speeds are computed.
C28_SendFailureEndsSession ==
    /\ [][(sp_pc = "send" /\ SendFailed') =>
            /\ sp_pc' = "calc"
            /\ total_bytes_sent' = total_bytes_sent
            /\ total_bytes_received' = total_bytes_received
            /\ rtt_samples' = rtt_samples]_vars
    /\ [](SendFailed => sp_pc \in {"calc", "finally", "close", "sessret"})
    /\ [][(SendFailed /\ sp_pc # "sessret") =>
            /\ sends' = sends
            /\ total_bytes_sent' = total_bytes_sent
            /\ total_bytes_received' = total_bytes_received]_vars
    /\ []((SendFailed /\ sp_pc \in {"finally", "close", "sessret"}) =>
            /\ upload_mbps = MbpsOf(total_bytes_sent, loop_elapsed)
            /\ download_mbps = MbpsOf(total_bytes_received, loop_elapsed))
\* the second send of a session failed; the bytes sent and received in the
\* first round are in the totals and in the speeds the session returns
C28_Witness ==
    /\ SendFailed /\ sp_pc = "sessret"
    /\ sends = 2
    /\ total_bytes_sent > 0 /\ total_bytes_received > 0
    /\ upload_mbps.num > 0 /\ download_mbps.num > 0


\* --------------------------------------------------------------- C29
\* the receive deadline of the round has passed with the block incomplete,
\* found by the test in the receive loop
DeadlineByCheck ==
    /\ sp_pc = "recvchk"
    /\ round_left = 0
    /\ bytes_received_this_round < MaxChunk
\* the same, found by recv raising socket.timeout after part of the block
\* has arrived: the step out of recv that uses up the time left and brings
\* no data
DeadlineByTimeout ==
    /\ sp_pc = "recv"
    /\ bytes_received_this_round > 0
    /\ sp_pc' # "recv"
    /\ round_left' = 0
    /\ loop_error' = loop_error
    /\ bytes_received_this_round' = bytes_received_this_round
\* what the claim says of the round: its bytes are added, it has an RTT
\* sample, it counts as an exchange when bytes came, and the loop goes on
RoundCounted ==
    /\ total_bytes_received' =
           total_bytes_received + bytes_received_this_round
    /\ rtt_samples' = rtt_samples + 1
    /\ bytes_received_this_round > 0 =>
           successful_exchanges' = successful_exchanges + 1

\* C29: a round whose receive deadline passes before the whole block has
\* arrived is not fatal: the bytes that did arrive are added to the total
\* received, the round gets an RTT sample and counts as an exchange, and the
\* loop goes on to its next test of the session time; this is so whether the
\* deadline is found by the test in the receive loop or by a socket.timeout
\* of recv.
C29_DeadlineRoundCounted ==
    /\ [][(DeadlineByCheck /\ sp_pc' # "recvchk") =>
            sp_pc' = "roundend" /\ loop_error' = loop_error]_vars
    /\ [][(sp_pc = "roundend" /\ sp_pc' # "roundend") =>
            RoundCounted /\ sp_pc' = "loopchk"]_vars
    /\ [][DeadlineByTimeout => RoundCounted /\ sp_pc' = "loopchk"]_vars


\* --------------------------------------------------------------- C30
\* recv returned an empty chunk (or failed otherwise): socket.error
PeerClosed == loop_error = "recv"

TeardownOps == [i \in DOMAIN teardown |-> teardown[i].op]
\* the session has left its finally block and is about to return
SessionLeaving == sp_pc = "sessret"

\* C31: whichever way a session ends once its socket object exists (connect
\* failed or timed out, duration over, stop, fatal round error, unexpected
\* exception), shutdown and then close have each been called on the socket
\* exactly once when the session returns; an exception of either call is
\* swallowed: the session still returns, with the pair it had computed.  A
\* session that got no socket object calls neither.
C31_SocketTornDownOnce ==
    /\ [](SessionLeaving =>
            IF sock = "none" THEN teardown = <<>>
            ELSE sock = "closed" /\ TeardownOps = <<"shutdown", "close">>)
    /\ [](sp_pc \in {"loopchk", "send", "recvchk", "recv", "roundend",
                     "calc"} => sock = "connected" /\ teardown = <<>>)
    /\ [][(sp_pc \in {"finally", "close"} /\ sp_pc' # sp_pc) =>
            /\ sp_pc' \in {"close", "sessret"}
            /\ download_mbps' = download_mbps
            /\ upload_mbps' = upload_mbps]_vars
    /\ [][(sp_pc' \in {"portchk", "returned"} /\ sp_pc \notin
              {"call", "portchk", "returned"}) => SessionLeaving]_vars
\* a session that connected and ended by a receive error: shutdown raised,
\* close raised, and the session is returning its pair all the same
C31_Witness ==
    /\ SessionLeaving
    /\ loop_error = "recv"
    /\ teardown = <<[op |-> "shutdown", raised |-> TRUE],
                    [op |-> "close", raised |-> TRUE]>>
    /\ upload_mbps.num > 0


\* --------------------------------------------------------------- C32
\* a step in which sock.send is called
SendStep == sends' = sends + 1
\* a step that ends a receive phase
RecvPhaseEnds == recv_phases' = recv_phases + 1

\* C32: within a session sends and receive phases alternate: send is called
\* only when every earlier send of the session has had its receive phase
\* and that phase has ended (block complete, deadline, or timeout), a send
\* that sent bytes is followed by a receive phase before any other send, and
\* no receive phase starts without its send.
C32_StopAndWait ==
    /\ [][SendStep => recv_phases = sends /\ sp_pc = "send"]_vars
    /\ [][RecvPhaseEnds =>
            /\ recv_phases + 1 = sends
            /\ sp_pc \in {"recvchk", "recv"}]_vars
    /\ [](sp_pc \in {"recvchk", "recv"} => sends = recv_phases + 1)
    /\ [](sp_pc \in {"loopchk", "send", "roundend"} => sends = recv_phases)
    /\ [](sends - recv_phases \in {0, 1})
\* two rounds of one session are over: one receive phase ended by a
\* socket.timeout (no RTT sample), the other by the loop test
C32_Witness ==
    /\ sp_pc = "loopchk"
    /\ sends = 2 /\ recv_phases = 2
    /\ rtt_samples = 1
    /\ total_bytes_received > 0


\* --------------------------------------------------------------- C33
\* stop was seen by the session: at the round boundary or in the receive
\* loop
StopObserved == loop_error \in {"stop", "stop_recv"}
\* a step that opens a connection attempt on a further port
OpensPort == Len(attempts') = Len(attempts) + 1

\* C33: run_socket_ping_pong_test tests stop before each port: with stop set
\* it opens no connection and returns (None, None), so a call made with stop
\* already set tries no port at all.  In a session stop is tested at each
\* round boundary and in each pass of the receive loop; once seen, no send
\* and no recv follows and the session ends.
C33_CooperativeStop ==
    /\ [][OpensPort => ~stop_event /\ sp_pc = "portchk"]_vars
    /\ [][(sp_pc = "portchk" /\ stop_event /\ sp_pc' # "portchk") =>
            SpReturned' /\ sp_result' = NoResult]_vars
    /\ [][(sp_pc = "loopchk" /\ stop_event /\ loop_elapsed < duration
           /\ sp_pc' # "loopchk") =>
            sp_pc' = "calc" /\ loop_error' = "stop"]_vars
    /\ [][(sp_pc = "recvchk" /\ stop_event /\ round_left > 0
           /\ bytes_received_this_round < MaxChunk
           /\ sp_pc' # "recvchk") =>
            sp_pc' = "calc" /\ loop_error' = "stop_recv"]_vars
    /\ [](StopObserved =>
            stop_event /\ sp_pc \in {"calc", "finally", "close", "sessret"})
    /\ [][(StopObserved /\ sp_pc # "sessret") =>
            sends' = sends /\ recv_phases' = recv_phases]_vars
\* stop was seen in the receive loop of a session's second round, after
\* bytes had arrived; the session is returning
C33_Witness ==
    /\ sp_pc = "sessret"
    /\ loop_error = "stop_recv"
    /\ sends = 2
    /\ bytes_received_this_round > 0


\* --------------------------------------------------------------- C34
\* test_servers has returned and stop has not been set
ReturnedUnstopped == Returned /\ ~stop_event
\* a step in which a callback is invoked
CallbackStep == rcbCalls' # rcbCalls \/ progressLog' # progressLog
\* no worker is between its dequeue and its task_done
NoWorkerBusy ==
    \A w \in WorkerIds :
        wpc[w] \in {"unstarted", "loop", "chkpause", "get", "exited"}

\* C34: in a run in which stop is not set, neither callback is invoked after
\* test_servers has returned: at the return every task is done and no worker
\* holds a target, and the results delivered through result_callback are
\* exactly the results of the returned list, one call each.
C34_NoCallbackAfterReturn ==
    /\ [][ReturnedUnstopped => ~CallbackStep]_vars
    /\ [](ReturnedUnstopped =>
            /\ unfinished_tasks = 0 /\ server_queue = <<>>
            /\ NoWorkerBusy /\ WorkersQuiet
            /\ result_queue = <<>>
            /\ \A s \in ServerIds : rcbCalls[s] = Occurrences(results, s)
            /\ Len(progressLog) = completed)
\* two servers were probed, each reported once through result_callback, and
\* both are in the list test_servers returned without stop
C34_Witness ==
    /\ ReturnedUnstopped
    /\ total = 2 /\ Len(results) = 2
    /\ \A s \in 1..2 : rcbCalls[s] = 1
    /\ Len(progressLog) = 2


\* --------------------------------------------------------------- C35
\* worker w takes a step from position pos while stop is set
StoppedStep(w, pos) == stop_event /\ wpc[w] = pos /\ wpc'[w] # pos
\* the probe of worker w returned and its result was put
ProbePublished(w) ==
    /\ wpc'[w] = "rcb"
    /\ Len(result_queue') = Len(result_queue) + 1
    /\ result_queue'[Len(result_queue')].server = wserver[w]

\* C35: a worker that is probing when stop is set is not interrupted: with
\* stop set it ends the probe, puts the result (unless the probe raised),
\* calls result_callback, increases completed, calls progress_callback and
\* calls task_done, as without stop, even after test_servers has returned;
\* the returned list does not change after the return, so a result put
\* after the results were collected is not in it.
C35_InFlightProbeCompletes ==
    /\ [][\A w \in WorkerIds :
            /\ StoppedStep(w, "probe") =>
                   /\ probes'[wserver[w]] = probes[wserver[w]] + 1
                   /\ ProbePublished(w) \/ wpc'[w] = "taskdone"
            /\ StoppedStep(w, "rcb") =>
                   /\ rcbCalls'[wserver[w]] = rcbCalls[wserver[w]] + 1
                   /\ wpc'[w] = "acquire"
            /\ StoppedStep(w, "acquire") =>
                   completed' = completed + 1 /\ wpc'[w] = "progress"
            /\ StoppedStep(w, "progress") =>
                   /\ Len(progressLog') = Len(progressLog) + 1
                   /\ wpc'[w] = "taskdone"
            /\ StoppedStep(w, "taskdone") =>
                   /\ unfinished_tasks' = unfinished_tasks - 1
                   /\ wpc'[w] = "loop"]_vars
    /\ [][Returned => results' = results]_vars
    /\ [](Returned =>
            \A s \in ServersOf(result_queue) : Occurrences(results, s) = 0)
\* stop was set while the only server was being probed: test_servers has
\* returned an empty list, and afterwards the worker has put the result and
\* called both callbacks
C35_Witness ==
    /\ Returned /\ stop_event
    /\ total = 1 /\ results = <<>>
    /\ inFlightAtReturn = 1
    /\ Len(result_queue) = 1
    /\ rcbCalls[1] = 1 /\ completed = 1 /\ Len(progressLog) = 1


\* --------------------------------------------------------------- C36
InPauseWait == coordPc = "pausewait"

\* C36: a coordinator that finds pause set while tasks are outstanding
\* enters its pause wait and leaves it only when pause is cleared or stop is
\* set; the number of unfinished tasks is not looked at there, so it stays
\* even when every task is done, and test_servers does not return meanwhile.
C36_PauseWaitHolds ==
    /\ [][(coordPc = "chkpause" /\ pause_event /\ coordPc' # "chkpause") =>
            InPauseWait']_vars
    /\ [][(InPauseWait /\ ~InPauseWait') =>
            (~pause_event \/ stop_event) /\ coordPc' = "wait"]_vars
    /\ [][(InPauseWait /\ pause_event /\ ~stop_event) =>
            (InPauseWait' /\ results' = results)]_vars
\* the coordinator is in its pause wait with pause set and stop not set,
\* both servers have been probed and no task is unfinished
C36_Witness ==
    /\ InPauseWait /\ pause_event /\ ~stop_event
    /\ total = 2 /\ unfinished_tasks = 0
    /\ completed = 2


\* --------------------------------------------------------------- C37
\* worker w takes a step from position pos while pause is set
PausedStep(w, pos) == pause_event /\ wpc[w] = pos /\ wpc'[w] # pos

\* C37: pause does not abort a probe in flight: with pause set, a worker
\* that is probing ends the probe, puts the result (unless the probe
\* raised), calls result_callback, increases completed, calls
\* progress_callback and calls task_done.  Pause acts only in the test at
\* the top of the worker's loop, where the worker goes back to the start
\* of the loop instead of on to the dequeue.
C37_PauseKeepsProbe ==
    /\ [][\A w \in WorkerIds :
            /\ PausedStep(w, "probe") =>
                   /\ probes'[wserver[w]] = probes[wserver[w]] + 1
                   /\ ProbePublished(w) \/ wpc'[w] = "taskdone"
            /\ PausedStep(w, "rcb") =>
                   /\ rcbCalls'[wserver[w]] = rcbCalls[wserver[w]] + 1
                   /\ wpc'[w] = "acquire"
            /\ PausedStep(w, "acquire") =>
                   completed' = completed + 1 /\ wpc'[w] = "progress"
            /\ PausedStep(w, "progress") =>
                   /\ Len(progressLog') = Len(progressLog) + 1
                   /\ wpc'[w] = "taskdone"
            /\ PausedStep(w, "taskdone") =>
                   /\ unfinished_tasks' = unfinished_tasks - 1
                   /\ wpc'[w] = "loop"]_vars
    /\ [][\A w \in WorkerIds :
            PausedStep(w, "chkpause") =>
                wpc'[w] = "loop" /\ takes' = takes]_vars
    /\ [][\A w \in WorkerIds :
            (wpc[w] = "chkpause" /\ ~pause_event /\ wpc'[w] # "chkpause")
                => wpc'[w] = "get"]_vars
\* pause is set and stop is not; since pause was set a worker has finished
\* the probe it had in flight and reported it, and is now back at the top
\* of its loop while the other server waits in the queue
C37_Witness ==
    /\ pause_event /\ ~stop_event
    /\ completed = completedAtPause + 1
    /\ \A w \in WorkerIds : deqInPause[w] = 0
    /\ Len(progressLog) = completed
    /\ \E s \in ServerIds : rcbCalls[s] = 1
    /\ server_queue # <<>>
    /\ \A w \in WorkerIds : wpc[w] \in {"unstarted", "loop", "chkpause"}


\* --------------------------------------------------------------- C38
\* the workers inside "with lock:", between the increment and the end of
\* progress_callback
InProgressCallback == {w \in WorkerIds : wpc[w] = "progress"}
RunningResultCallback == {w \in WorkerIds : wpc[w] = "rcb"}

\* C38: progress_callback runs under the counter lock, so at most one worker
\* is in it at a time; there is one invocation per increment of completed,
\* and the k-th invocation carries k / total * 100, so the values delivered
\* increase strictly.  result_callback is called by a worker that does not
\* hold the lock.
C38_ProgressSerialized ==
    /\ Cardinality(InProgressCallback) <= 1
    /\ \A w \in WorkerIds : (wpc[w] = "progress") <=> (lock = w)
    /\ \A w \in RunningResultCallback : lock # w
    /\ completed = Len(progressLog) + Cardinality(InProgressCallback)
    /\ \A k \in DOMAIN progressLog :
           progressLog[k].num * total = k * 100 * progressLog[k].den
    /\ \A i, j \in DOMAIN progressLog :
           i < j => ~FracLeq(progressLog[j], progressLog[i])
\* one worker is in progress_callback with the lock, having delivered the
\* first value; the other has run result_callback and waits for the lock
C38_Witness ==
    /\ \E w, v \in WorkerIds :
           /\ wpc[w] = "progress" /\ lock = w
           /\ wpc[v] = "acquire"
    /\ total = 2 /\ completed = 1
    /\ rcbCalls[1] = 1 /\ rcbCalls[2] = 1


\* --------------------------------------------------------------- C39
\* results put into the result collection so far (collected ones included)
ResultsPut == Len(result_queue) + Len(collected)
\* targets taken off the queue by workers (the coordinator's drain apart)
DequeuedByWorkers ==
    Cardinality({s \in ServerIds : takes[s] >= 1}) - drained

\* C39: always 0 <= completed <= results put <= targets dequeued by
\* workers <= N; every target is taken off the queue at most once and
\* task_done is called once for each target taken, by the worker or the
\* draining coordinator that took it, so unfinished_tasks is N minus the
\* number of targets finished and is never negative.
C39_CounterChain ==
    /\ 0 <= completed
    /\ completed <= ResultsPut
    /\ ResultsPut <= DequeuedByWorkers
    /\ DequeuedByWorkers <= total
    /\ \A s \in ServerIds : takes[s] <= 1
    /\ unfinished_tasks >= 0
    /\ AccountedOnce
    /\ coordPc # "call" =>
           unfinished_tasks = Len(server_queue)
               + Cardinality({s \in ServerIds : Held(s)})
\* two servers dequeued by two workers: one result is put but not yet
\* counted, the other server is still being probed
C39_Witness ==
    /\ total = 2 /\ DequeuedByWorkers = 2
    /\ ResultsPut = 1 /\ completed = 0
    /\ unfinished_tasks = 2
    /\ \E w \in WorkerIds : wpc[w] = "probe"

\* ------------------------------------------------------------------ C40
\* lines 680-699 ran in this step: both flags were reset and a thread started
StartStep == test_threads' = test_threads + 1
\* a call of start_test_thread stopped at its first message box
StartRefusedOrAsked == Len(dialogs') = Len(dialogs) + 1
CleanupStep == cleanups' = cleanups - 1
FlagsAndThreads == <<test_in_progress, stop_event, pause_event, test_threads,
                     cleanups>>

\* what the claim rests on: start_test_thread changes nothing while
\* test_in_progress is true, the stop flag is cleared by start_test_thread
\* only, and test_in_progress becomes false only in _test_cleanup
C40_Premises ==
    /\ [][test_in_progress /\ StartRefusedOrAsked
            => UNCHANGED FlagsAndThreads]_vars
    /\ [][stop_event /\ ~stop_event' => StartStep]_vars
    /\ [][test_in_progress /\ ~test_in_progress' => CleanupStep]_vars

OneTestThread == test_threads <= 1

====
